---------------------------- MODULE Spec2Model ----------------------------
(***************************************************************************)
(* Model of the LexiAssist backend: the storybook round-generation and     *)
(* response-analysis pipeline (app/ai/storybook.py), the capturing         *)
(* middleware (app/main.py), the word-detective functions                  *)
(* (app/ai/worddetective.py), registration and the session cookie          *)
(* (app/auth), a parent's students (app/students) and the submission and   *)
(* reading of tests (app/tests/routes.py).                                 *)
(*                                                                         *)
(* Python values are tagged records: t names the Python type.              *)
(*   None  [t |-> "none"]          bool  [t |-> "bool", b |-> TRUE]        *)
(*   int   [t |-> "num", n |-> 5]  str   [t |-> "str", s |-> <<...>>]      *)
(*   list  [t |-> "arr", a |-> <<...>>]                                    *)
(*   dict  [t |-> "obj", m |-> << [key |-> k, val |-> v], ... >>]          *)
(* A str is a sequence of letters; a key name such as "rounds" is one      *)
(* letter of that alphabet, so `k in s` is membership of k in s.           *)
(***************************************************************************)
EXTENDS Integers, Sequences, FiniteSets, TLC

VARIABLES
    GEMINI_API_KEY,       \* os.getenv("GEMINI_API_KEY"): None, "" or a key
    rounds_cache,         \* storybook.rounds_cache: dict sessionId -> rounds
    served,               \* history: sessionId -> rounds of its first "ai" response
    resp,                 \* the response of the last request
    gw,                   \* the gateway call GatewayCall made, with its inputs
    test_ai_rounds_col,   \* db["test_ai_rounds"]
    test_ai_analysis_col, \* db["test_ai_analysis"]
    tests_col,            \* db["tests"]
    students_col,         \* db["students"]
    parents_col,          \* db["parents"]
    student_ids,          \* how many ObjectIds student inserts have been given
    clock,                \* datetime.utcnow()
    printed,              \* what the middleware printed during the last request
    call,                 \* a function of the program taken alone: its arguments,
                          \* then its result; for the routes behind the session
                          \* cookie, the last request: its cookie and its ids
    reqs                  \* the requests the event loop has accepted and not yet
                          \* answered, with the step each one is at

vars == <<GEMINI_API_KEY, rounds_cache, served, resp, gw,
          test_ai_rounds_col, test_ai_analysis_col, tests_col, students_col,
          parents_col, student_ids, clock, printed, call, reqs>>

\* the database, the wall clock and the server's console
dbVars == <<test_ai_rounds_col, test_ai_analysis_col, tests_col, students_col,
            parents_col, student_ids, clock, printed>>

---------------------------------------------------------------------------
(* Python values *)

PyNone == [t |-> "none"]

PyBool(b) == [t |-> "bool", b |-> b]

PyNum(n) == [t |-> "num", n |-> n]

PyStr(s) == [t |-> "str", s |-> s]

PyList(a) == [t |-> "arr", a |-> a]

PyDict(m) == [t |-> "obj", m |-> m]

\* bool(v)
Truthy(v) ==
    CASE v.t = "none" -> FALSE
      [] v.t = "bool" -> v.b
      [] v.t = "num"  -> v.n # 0
      [] v.t = "str"  -> Len(v.s) > 0
      [] v.t = "arr"  -> Len(v.a) > 0
      [] v.t = "obj"  -> Len(v.m) > 0

\* the types on which `in`, len() and iteration are defined
IsContainer(v) == v.t \in {"str", "arr", "obj"}

\* k in v, for a key name k; meaningful when IsContainer(v), a TypeError otherwise
PyIn(k, v) ==
    CASE v.t = "obj" -> \E i \in 1..Len(v.m) : v.m[i].key = k
      [] v.t = "arr" -> \E i \in 1..Len(v.a) : v.a[i] = PyStr(<<k>>)
      [] v.t = "str" -> \E i \in 1..Len(v.s) : v.s[i] = k
      [] OTHER -> FALSE

\* len(v); meaningful when IsContainer(v), a TypeError otherwise
PyLen(v) ==
    CASE v.t = "obj" -> Len(v.m)
      [] v.t = "arr" -> Len(v.a)
      [] v.t = "str" -> Len(v.s)
      [] OTHER -> 0

\* d[k] for a dict d that has key k
DictGet(d, k) ==
    LET i == CHOOSE j \in 1..Len(d.m) : d.m[j].key = k IN d.m[i].val

\* d[k] = v on a dict: replaces the value in place or appends the key
DictSet(d, k, v) ==
    IF PyIn(k, d)
    THEN PyDict([i \in 1..Len(d.m) |->
                    IF d.m[i].key = k THEN [key |-> k, val |-> v] ELSE d.m[i]])
    ELSE PyDict(Append(d.m, [key |-> k, val |-> v]))

\* FirstTwo without the slice: the loop visits every element
FirstTwoNoSlice(v) ==
    IF v.t = "arr" THEN v.a ELSE [i \in 1..Len(v.s) |-> PyStr(<<v.s[i]>>)]

\* the elements a for-loop over v[:2] visits, for a list or a str
FirstTwo(v) ==
    IF v.t = "arr"
    THEN SubSeq(v.a, 1, IF Len(v.a) < 2 THEN Len(v.a) ELSE 2)
    ELSE [i \in 1..(IF Len(v.s) < 2 THEN Len(v.s) ELSE 2) |-> PyStr(<<v.s[i]>>)]

---------------------------------------------------------------------------
(* Text and json.loads.  A text is a sequence of tokens: braces, brackets, *)
(* a run of prose, a scalar literal, or a quoted key with its colon.       *)
(* Commas are part of the tokens they follow.                              *)

LBrace == [k |-> "{"]

RBrace == [k |-> "}"]

LBracket == [k |-> "["]

RBracket == [k |-> "]"]

Prose == [k |-> "prose"]

Lit(v) == [k |-> "lit", v |-> v]

Key(name) == [k |-> "key", name |-> name]

\* the nesting of arrays and objects beyond which the decoder's recursion
\* ends in RecursionError (the interpreter's recursion limit, scaled down)
MaxDepth == 6

\* JSONDecodeError
ParseFail == [ok |-> FALSE, val |-> PyNone, next |-> 0, err |-> "JSONDecodeError"]

\* RecursionError, which is no JSONDecodeError
ParseTooDeep == [ok |-> FALSE, val |-> PyNone, next |-> 0, err |-> "RecursionError"]

RECURSIVE ParseValue(_, _, _)
RECURSIVE ParseMembers(_, _, _, _)
RECURSIVE ParseElems(_, _, _, _)

\* the JSON value that starts at token i of text, depth containers deep
ParseValue(text, i, depth) ==
    IF i > Len(text) THEN ParseFail
    ELSE CASE text[i].k = "lit" ->
                [ok |-> TRUE, val |-> text[i].v, next |-> i + 1, err |-> ""]
           [] text[i].k = "{"   ->
                IF depth >= MaxDepth THEN ParseTooDeep
                ELSE ParseMembers(text, i + 1, PyDict(<<>>), depth + 1)
           [] text[i].k = "["   ->
                IF depth >= MaxDepth THEN ParseTooDeep
                ELSE ParseElems(text, i + 1, <<>>, depth + 1)
           [] OTHER -> ParseFail

\* the members of an object up to its closing brace; a repeated key keeps the last value
ParseMembers(text, i, acc, depth) ==
    IF i > Len(text) THEN ParseFail
    ELSE CASE text[i].k = "}" -> [ok |-> TRUE, val |-> acc, next |-> i + 1, err |-> ""]
           [] text[i].k = "key" ->
                LET r == ParseValue(text, i + 1, depth) IN
                IF r.ok
                THEN ParseMembers(text, r.next, DictSet(acc, text[i].name, r.val), depth)
                ELSE r
           [] OTHER -> ParseFail

\* the elements of an array up to its closing bracket
ParseElems(text, i, acc, depth) ==
    IF i > Len(text) THEN ParseFail
    ELSE IF text[i].k = "]"
    THEN [ok |-> TRUE, val |-> PyList(acc), next |-> i + 1, err |-> ""]
    ELSE LET r == ParseValue(text, i, depth) IN
         IF r.ok THEN ParseElems(text, r.next, Append(acc, r.val), depth) ELSE r

\* what json.loads makes of the decoder's result r on a text of n tokens:
\* tokens left after the value are a JSONDecodeError as well
decode(r, n) ==
    IF r.ok /\ r.next = n + 1 THEN [ok |-> TRUE, val |-> r.val, err |-> ""]
    ELSE [ok |-> FALSE, val |-> PyNone,
          err |-> IF r.ok THEN "JSONDecodeError" ELSE r.err]

\* json.loads(text): ok with the value, or the exception it raises
json_loads(text) == decode(ParseValue(text, 1, 0), Len(text))

RECURSIVE json_dumps(_)
RECURSIVE DumpSeq(_, _)
RECURSIVE DumpMembers(_, _)

\* str(v) in place of json.dumps(v): None is written None, which is no JSON
json_dumps_repr(v) ==
    CASE v.t = "arr" -> <<LBracket>> \o DumpSeq(v.a, 1) \o <<RBracket>>
      [] v.t = "obj" -> <<LBrace>> \o DumpMembers(v.m, 1) \o <<RBrace>>
      [] v.t = "none" -> <<Prose>>
      [] OTHER -> <<Lit(v)>>

\* json.dumps(v)
json_dumps(v) ==
    CASE v.t = "arr" -> <<LBracket>> \o DumpSeq(v.a, 1) \o <<RBracket>>
      [] v.t = "obj" -> <<LBrace>> \o DumpMembers(v.m, 1) \o <<RBrace>>
      [] OTHER -> <<Lit(v)>>

DumpSeq(a, i) ==
    IF i > Len(a) THEN <<>> ELSE json_dumps(a[i]) \o DumpSeq(a, i + 1)

DumpMembers(m, i) ==
    IF i > Len(m) THEN <<>>
    ELSE <<Key(m[i].key)>> \o json_dumps(m[i].val) \o DumpMembers(m, i + 1)

\* text.find(c): 0-based index of the first token c, -1 when there is none
StrFind(text, c) ==
    IF \E i \in 1..Len(text) : text[i] = c
    THEN (CHOOSE i \in 1..Len(text) :
             text[i] = c /\ \A j \in 1..(i - 1) : text[j] # c) - 1
    ELSE -1

\* text.rfind(c): 0-based index of the last token c, -1 when there is none
StrRFind(text, c) ==
    IF \E i \in 1..Len(text) : text[i] = c
    THEN (CHOOSE i \in 1..Len(text) :
             text[i] = c /\ \A j \in (i + 1)..Len(text) : text[j] # c) - 1
    ELSE -1

\* text[start:end] for 0 <= start < end <= len(text)
Slice(text, start, end) == SubSeq(text, start + 1, end)

\* an exception that leaves a function, as a value of its own
PyRaise(e) == [t |-> "raise", e |-> e]

\* `except json.JSONDecodeError` around the outcome r of json.loads: the
\* value, or handled when the clause catches, or the exception that passes it
except_JSONDecodeError(r, handled) ==
    IF r.ok THEN r.val
    ELSE IF r.err = "JSONDecodeError" THEN handled
    ELSE PyRaise(r.err)

\* json.loads inside `try ... except json.JSONDecodeError`
TryLoads(text, handled) == except_JSONDecodeError(json_loads(text), handled)

\* storybook.parse_json_response: the parsed value, or None, or the
\* exception that escapes it
parse_json_response(text) ==
    LET start == StrFind(text, LBrace)
        end   == StrRFind(text, RBrace) + 1
        inner == IF start # -1 /\ end > start
                 THEN TryLoads(Slice(text, start, end), PyNone)
                 ELSE PyNone
    IN  TryLoads(text, inner)

---------------------------------------------------------------------------
(* app/ai/storybook.py *)

\* the default of call_gemini_with_retry's max_retries, which both handlers use
max_retries_default == 2

\* the i-th sentence of a story
Item(i) == PyStr(<<"sentence", ToString(i)>>)

\* a round object as the prompt asks for it: id, type, promptText and n items
RoundObj(id, n) ==
    PyDict(<< [key |-> "id",         val |-> PyStr(<<id>>)],
              [key |-> "type",       val |-> PyStr(<<"text">>)],
              [key |-> "promptText", val |-> PyStr(<<"Tap the sentences in the correct story order:">>)],
              [key |-> "items",      val |-> PyList([i \in 1..n |-> Item(i)])] >>)

FALLBACK_ROUNDS ==
    PyList(<< DictSet(RoundObj("fallback-4", 3), "aiGenerated", PyBool(TRUE)),
              DictSet(RoundObj("fallback-5", 3), "aiGenerated", PyBool(TRUE)) >>)

\* a marker object {"score": tenths / 10, "note": note}
Marker(tenths, note) ==
    PyDict(<< [key |-> "score", val |-> PyNum(tenths)],
              [key |-> "note",  val |-> PyStr(<<note>>)] >>)

\* the fallback analysis literal of the gateway-failure path (scores in tenths)
fallback_analysis_no_text ==
    PyDict(<< [key |-> "sequencing",      val |-> Marker(5, "Unable to assess sequencing patterns.")],
              [key |-> "omissions",       val |-> Marker(5, "Unable to assess for omissions.")],
              [key |-> "visualConfusion", val |-> Marker(2, "No clear visual confusion patterns detected in this attempt.")],
              [key |-> "phonologicalCue", val |-> Marker(2, "No clear phonological emphasis detected in this attempt.")],
              [key |-> "recommendedFollowUps",
               val |-> PyList(<< PyStr(<<"Ask the child to read the sentences aloud to listen for phonological patterns.">>),
                                 PyStr(<<"Ask why they chose that specific order.">>) >>)],
              [key |-> "confidence",      val |-> PyNum(3)] >>)

\* the fallback analysis literal of the extraction-failure path
fallback_analysis_no_parse ==
    PyDict(<< [key |-> "sequencing",      val |-> Marker(5, "Unable to assess sequencing patterns.")],
              [key |-> "omissions",       val |-> Marker(5, "Unable to assess for omissions.")],
              [key |-> "visualConfusion", val |-> Marker(2, "No clear visual confusion patterns detected in this attempt.")],
              [key |-> "phonologicalCue", val |-> Marker(2, "No clear phonological emphasis detected in this attempt.")],
              [key |-> "recommendedFollowUps",
               val |-> PyList(<< PyStr(<<"Ask the child to read the sentences aloud to listen for phonological patterns.">>),
                                 PyStr(<<"Ask why they chose that specific order.">>) >>)],
              [key |-> "confidence",      val |-> PyNum(3)] >>)

\* the fallback analysis literal of the missing-field path
fallback_analysis_missing_field ==
    PyDict(<< [key |-> "sequencing",      val |-> Marker(5, "Unable to assess sequencing patterns.")],
              [key |-> "omissions",       val |-> Marker(5, "Unable to assess for omissions.")],
              [key |-> "visualConfusion", val |-> Marker(2, "No clear visual confusion patterns detected in this attempt.")],
              [key |-> "phonologicalCue", val |-> Marker(2, "No clear phonological emphasis detected in this attempt.")],
              [key |-> "recommendedFollowUps",
               val |-> PyList(<< PyStr(<<"Ask the child to read the sentences aloud to listen for phonological patterns.">>),
                                 PyStr(<<"Ask why they chose that specific order.">>) >>)],
              [key |-> "confidence",      val |-> PyNum(3)] >>)

\* what one provider attempt does: raise, or answer with a text
Raises == [raises |-> TRUE]

Answers(text) == [raises |-> FALSE, text |-> text]

\* a str returned by the gateway
PyText(text) == [t |-> "text", x |-> text]

RECURSIVE RetryLoop(_, _, _, _)
RECURSIVE RetryLoopSleepAlways(_, _, _, _)

\* RetryLoop sleeping after every failed attempt, the last one included
RetryLoopSleepAlways(attempt, max_retries, outcomes, trace) ==
    IF attempt >= max_retries
    THEN [ret |-> PyNone, trace |-> trace]
    ELSE IF outcomes[attempt + 1].raises
         THEN RetryLoopSleepAlways(attempt + 1, max_retries, outcomes,
                                   trace \o <<"call", "sleep">>)
         ELSE [ret |-> PyText(outcomes[attempt + 1].text), trace |-> Append(trace, "call")]

\* the for-loop of call_gemini_with_retry from attempt (0-based) on;
\* trace lists the provider calls and the sleeps made so far
RetryLoop(attempt, max_retries, outcomes, trace) ==
    IF attempt >= max_retries
    THEN [ret |-> PyNone, trace |-> trace]
    ELSE IF outcomes[attempt + 1].raises
         THEN RetryLoop(attempt + 1, max_retries, outcomes,
                        IF attempt < max_retries - 1
                        THEN trace \o <<"call", "sleep">>
                        ELSE Append(trace, "call"))
         ELSE [ret |-> PyText(outcomes[attempt + 1].text), trace |-> Append(trace, "call")]

\* the gateway without the credential check
call_gemini_unchecked(key, max_retries, outcomes) ==
    RetryLoop(0, max_retries, outcomes, <<>>)

\* the gateway answering an absent credential with a value of its own
call_gemini_config_error(key, max_retries, outcomes) ==
    IF ~Truthy(key)
    THEN [ret |-> [t |-> "config_error"], trace |-> <<>>]
    ELSE RetryLoop(0, max_retries, outcomes, <<>>)

\* call_gemini_with_retry(prompt, max_retries) under credential key, when the
\* i-th provider attempt would behave as outcomes[i]
call_gemini_with_retry(key, max_retries, outcomes) ==
    IF ~Truthy(key)
    THEN [ret |-> PyNone, trace |-> <<>>]
    ELSE RetryLoop(0, max_retries, outcomes, <<>>)

\* the number of events e in a gateway trace
Count(trace, e) == Cardinality({i \in 1..Len(trace) : trace[i] = e})

\* `not response_text` for the gateway's Optional[str]
NoText(ret) == ret.t = "none" \/ Len(ret.x) = 0

RoundRequiredKeys == <<"id", "type", "promptText", "items">>

RECURSIVE AllIn(_, _, _)

\* all(k in v for k in keys) from keys[i] on: "raise" is the TypeError of
\* `in` on a value that is not a container; all() stops at the first False
AllIn(keys, v, i) ==
    IF i > Len(keys) THEN "true"
    ELSE IF ~IsContainer(v) THEN "raise"
    ELSE IF ~PyIn(keys[i], v) THEN "false"
    ELSE AllIn(keys, v, i + 1)

\* the body of the validation loop for one round: the round tagged
\* aiGenerated, or the early return, or an exception
ValidateRound(round_data) ==
    LET has == AllIn(RoundRequiredKeys, round_data, 1) IN
    IF has = "raise" THEN [out |-> "raise"]
    ELSE IF has = "false" THEN [out |-> "fallback"]
    ELSE IF round_data.t # "obj" THEN [out |-> "raise"]
    ELSE LET items == DictGet(round_data, "items") IN
         IF ~IsContainer(items) THEN [out |-> "raise"]
         ELSE IF PyLen(items) < 5 THEN [out |-> "fallback"]
         ELSE [out |-> "ok", round |-> DictSet(round_data, "aiGenerated", PyBool(TRUE))]

RECURSIVE ValidateLoop(_, _, _)

\* the for-loop over rounds_data from element i on; acc holds the tagged rounds
ValidateLoop(rounds_data, i, acc) ==
    IF i > Len(rounds_data) THEN [out |-> "ok", rounds |-> PyList(acc)]
    ELSE LET r == ValidateRound(rounds_data[i]) IN
         IF r.out = "ok" THEN ValidateLoop(rounds_data, i + 1, Append(acc, r.round))
         ELSE [out |-> r.out]

\* a handler's result: an HTTP status, the response model's fields, the
\* session cache afterwards and the gateway trace
Result(status, source, payload, cache, trace) ==
    [status |-> status, source |-> source, payload |-> payload,
     cache |-> cache, trace |-> trace]

\* an exception that escapes the handler: 500 Internal Server Error
Raised(cache, trace) == Result(500, "none", PyNone, cache, trace)

\* generate_rounds after the cache miss, on the gateway's return value
GenerateFromProvider(sessionId, cache, g) ==
    LET fallback == Result(200, "fallback", FALLBACK_ROUNDS, cache, g.trace) IN
    IF NoText(g.ret) THEN fallback
    ELSE LET parsed == parse_json_response(g.ret.x) IN
    IF parsed.t = "raise" THEN Raised(cache, g.trace)
    ELSE IF ~Truthy(parsed) THEN fallback
    ELSE IF ~IsContainer(parsed) THEN Raised(cache, g.trace)
    ELSE IF ~PyIn("rounds", parsed) THEN fallback
    ELSE IF parsed.t # "obj" THEN Raised(cache, g.trace)
    ELSE LET rounds == DictGet(parsed, "rounds") IN
    IF ~IsContainer(rounds) THEN Raised(cache, g.trace)
    ELSE IF PyLen(rounds) < 2 THEN fallback
    ELSE IF rounds.t = "obj" THEN Raised(cache, g.trace)
    ELSE LET v == ValidateLoop(FirstTwo(rounds), 1, <<>>) IN
    IF v.out = "raise" THEN Raised(cache, g.trace)
    ELSE IF v.out = "fallback" THEN fallback
    ELSE Result(200, "ai", v.rounds,
                IF Truthy(sessionId)
                THEN [s \in DOMAIN cache \cup {sessionId} |->
                         IF s = sessionId THEN v.rounds ELSE cache[s]]
                ELSE cache,
                g.trace)

\* generate_rounds without the cache lookup
generate_rounds_uncached(sessionId, key, cache, outcomes) ==
    GenerateFromProvider(sessionId, cache,
                         call_gemini_with_retry(key, max_retries_default, outcomes))

\* a generate_rounds that remembers the fallback catalog for the session
generate_rounds_caching_fallback(sessionId, key, cache, outcomes) ==
    IF Truthy(sessionId) /\ sessionId \in DOMAIN cache
    THEN Result(200, "ai", cache[sessionId], cache, <<>>)
    ELSE LET r == generate_rounds_uncached(sessionId, key, cache, outcomes) IN
         IF r.source = "fallback" /\ Truthy(sessionId)
         THEN Result(200, "fallback", r.payload,
                     [s \in DOMAIN cache \cup {sessionId} |->
                         IF s = sessionId THEN r.payload ELSE cache[s]],
                     r.trace)
         ELSE r

\* storybook.generate_rounds
generate_rounds(sessionId, key, cache, outcomes) ==
    IF Truthy(sessionId) /\ sessionId \in DOMAIN cache
    THEN Result(200, "ai", cache[sessionId], cache, <<>>)
    ELSE GenerateFromProvider(sessionId, cache,
                              call_gemini_with_retry(key, max_retries_default, outcomes))

required_fields ==
    <<"sequencing", "omissions", "visualConfusion", "phonologicalCue",
      "recommendedFollowUps", "confidence">>

\* storybook.analyze_response
analyze_response(key, cache, outcomes) ==
    LET g == call_gemini_with_retry(key, max_retries_default, outcomes) IN
    IF NoText(g.ret)
    THEN Result(200, "fallback", fallback_analysis_no_text, cache, g.trace)
    ELSE LET parsed == parse_json_response(g.ret.x) IN
    IF parsed.t = "raise" THEN Raised(cache, g.trace)
    ELSE IF ~Truthy(parsed)
    THEN Result(200, "fallback", fallback_analysis_no_parse, cache, g.trace)
    ELSE LET has == AllIn(required_fields, parsed, 1) IN
    IF has = "raise" THEN Raised(cache, g.trace)
    ELSE IF has = "false"
    THEN Result(200, "fallback", fallback_analysis_missing_field, cache, g.trace)
    ELSE IF parsed.t # "obj" THEN Raised(cache, g.trace)
    ELSE Result(200, "ai", parsed, cache, g.trace)

\* storybook.health_check
health_check(key) == [status |-> "ok", api_key_configured |-> Truthy(key)]

---------------------------------------------------------------------------
(* The provider's answers.  The provider is outside the program: each      *)
(* attempt raises or answers with one of the texts below.                  *)

\* the largest item count of a provider-supplied round
MaxItems == 7

\* d without key k
DictDel(d, k) == PyDict(SelectSeq(d.m, LAMBDA e : e.key # k))

\* round objects a provider may supply under identifier id
RoundVariants(id) ==
    {RoundObj(id, n) : n \in 4..MaxItems}
    \cup {DictDel(RoundObj(id, 5), k) : k \in {"id", "type", "promptText", "items"}}
    \cup {DictSet(RoundObj(id, 5), "items", PyNone),
          DictSet(RoundObj(id, 5), "items", PyStr(<<"a", "b", "c", "d", "e">>)),
          PyNum(5),
          PyList(<<PyStr(<<"id">>), PyStr(<<"type">>), PyStr(<<"promptText">>), PyStr(<<"items">>)>>)}

RoundsPayload(rounds) == PyDict(<<[key |-> "rounds", val |-> rounds]>>)

\* payloads answering the generation prompt, well-formed or not
RoundBatchPayloads ==
    {RoundsPayload(PyList(<<r, RoundObj("ai-5", 6)>>)) : r \in RoundVariants("ai-4")}
    \cup {RoundsPayload(PyList(<<RoundObj("ai-4", 5), r>>)) :
             r \in {RoundObj("ai-5", 4), DictDel(RoundObj("ai-5", 5), "items"),
                    DictDel(RoundObj("ai-5", 5), "id"), PyNum(5)}}
    \cup {RoundsPayload(PyList(<<RoundObj("ai-4", 5), RoundObj("ai-5", 6), r>>)) :
             r \in {RoundObj("ai-6", 5), RoundObj("ai-6", 4), PyNum(5)}}
    \cup {RoundsPayload(PyList(<<PyNum(5), PyNum(5)>>)),
          RoundsPayload(PyList(<<RoundObj("ai-4", 5)>>)),
          RoundsPayload(PyList(<<>>)),
          RoundsPayload(PyNone),
          RoundsPayload(PyNum(5)),
          RoundsPayload(PyStr(<<"x", "y">>)),
          RoundsPayload(PyDict(<<[key |-> "a", val |-> RoundObj("ai-4", 5)],
                                 [key |-> "b", val |-> RoundObj("ai-5", 6)]>>)),
          PyDict(<<[key |-> "stories", val |-> PyList(<<RoundObj("ai-4", 5), RoundObj("ai-5", 6)>>)]>>)}

\* an analysis object with the given top-level fields
AnalysisObj(fields) ==
    PyDict([i \in 1..Len(fields) |->
               [key |-> fields[i],
                val |-> CASE fields[i] = "recommendedFollowUps" -> PyList(<<PyStr(<<"question 1">>)>>)
                          [] fields[i] = "confidence" -> PyNum(9)
                          [] OTHER -> Marker(10, "clearly present")]])

\* seq without its i-th element
RemoveAt(seq, i) == SubSeq(seq, 1, i - 1) \o SubSeq(seq, i + 1, Len(seq))

\* payloads answering the analysis prompt, well-formed or not
AnalysisPayloads ==
    {AnalysisObj(required_fields), AnalysisObj(Append(required_fields, "summary"))}
    \cup {AnalysisObj(RemoveAt(required_fields, i)) : i \in 1..Len(required_fields)}
    \cup {PyList([i \in 1..Len(required_fields) |-> PyStr(<<required_fields[i]>>)]),
          PyStr(required_fields)}

\* JSON values that are not objects, and the empty object
OtherPayloads ==
    {PyNone, PyBool(TRUE), PyBool(FALSE), PyNum(0), PyNum(5),
     PyStr(<<>>), PyStr(<<"rounds">>), PyStr(<<"sorry">>),
     PyList(<<>>), PyList(<<PyStr(<<"rounds">>)>>), PyList(<<PyNum(1)>>), PyDict(<<>>)}

Payloads == RoundBatchPayloads \cup AnalysisPayloads \cup OtherPayloads

\* payloads the provider wraps in prose or a code fence
WrappedPayloads ==
    {RoundsPayload(PyList(<<RoundObj("ai-4", 5), RoundObj("ai-5", 6)>>)),
     RoundsPayload(PyList(<<RoundObj("ai-4", 4), RoundObj("ai-5", 6)>>)),
     AnalysisObj(required_fields),
     AnalysisObj(RemoveAt(required_fields, 1)),
     PyList(<<RoundObj("ai-4", 5), RoundObj("ai-5", 6)>>),
     PyNum(5)}

\* texts that are not JSON and hold no JSON object either
BrokenTexts ==
    {<<Prose>>,
     <<LBrace>>,
     <<RBrace, Prose, LBrace>>,
     <<Prose, LBrace, Prose, RBrace>>,
     <<LBrace, Key("rounds"), LBracket, RBrace>>,
     json_dumps(AnalysisObj(required_fields)) \o <<Prose>> \o json_dumps(PyDict(<<>>))}

\* every text the provider may answer with; <<>> is the empty string
Texts ==
    {<<>>}
    \cup {json_dumps(v) : v \in Payloads}
    \cup {<<Prose>> \o json_dumps(v) \o <<Prose>> : v \in WrappedPayloads}
    \cup BrokenTexts

\* texts with which a second attempt may answer after the first has raised
RetryTexts ==
    {<<>>, <<Prose>>}
    \cup {json_dumps(v) : v \in WrappedPayloads}
    \cup {<<Prose>> \o json_dumps(v) \o <<Prose>> : v \in WrappedPayloads}

\* what the attempts of one gateway call do: the later attempts are made
\* only when the earlier ones raise
AttemptOutcomes ==
    {<<Raises, Raises>>}
    \cup {<<Answers(t), Raises>> : t \in Texts}
    \cup {<<Raises, Answers(t)>> : t \in RetryTexts}

\* values of the environment variable GEMINI_API_KEY: unset, empty, set
ApiKeys == {PyNone, PyStr(<<>>), PyStr(<<"key">>)}

\* values of a request's optional sessionId
SessionIds == {PyNone, PyStr(<<>>), PyStr(<<"s1">>), PyStr(<<"s2">>)}

---------------------------------------------------------------------------
(* The handlers called one request at a time: they are coroutines without  *)
(* an await, so the event loop runs each to completion.                    *)

EmptyMap == [s \in {} |-> PyNone]

\* parents holding a valid session cookie
Parents == {"p1", "p2"}

\* the student documents present at start: one student per parent
SeedStudents == {[_id |-> "st1", parentId |-> "p1"], [_id |-> "st2", parentId |-> "p2"]}

NoResponse ==
    [op |-> "none", sessionId |-> PyNone, status |-> 0, source |-> "none",
     payload |-> PyNone, calls |-> 0, sleeps |-> 0]

Response(op, sessionId, r) ==
    [op |-> op, sessionId |-> sessionId, status |-> r.status, source |-> r.source,
     payload |-> r.payload, calls |-> Count(r.trace, "call"),
     sleeps |-> Count(r.trace, "sleep")]

\* the event loop at start-up: running is the task that holds the loop
\* (0 when it is free), task the requests accepted so far
NoRequests == [running |-> 0, task |-> <<>>]

\* no function is under study
NoCall == [op |-> "none"]

\* the server after start-up, before any request
InitServer ==
    /\ rounds_cache = EmptyMap
    /\ served = EmptyMap
    /\ resp = NoResponse
    /\ gw = PyNone
    /\ test_ai_rounds_col = <<>>
    /\ test_ai_analysis_col = <<>>
    /\ tests_col = <<>>
    /\ students_col = SeedStudents
    /\ parents_col = {[_id |-> "p1", email |-> <<"a">>], [_id |-> "p2", email |-> <<"b">>]}
    /\ student_ids = Cardinality(SeedStudents)
    /\ clock = 0
    /\ printed = ""
    /\ reqs = NoRequests

Init ==
    /\ GEMINI_API_KEY \in ApiKeys
    /\ InitServer
    /\ call = NoCall

\* the history of first "ai" responses after a generate-rounds response
Remember(sessionId, r) ==
    IF r.source = "ai" /\ Truthy(sessionId) /\ sessionId \notin DOMAIN served
    THEN [s \in DOMAIN served \cup {sessionId} |->
             IF s = sessionId THEN r.payload ELSE served[s]]
    ELSE served

\* POST /generate-rounds handled by generate_rounds
GenerateRounds ==
    \E sessionId \in SessionIds, outcomes \in AttemptOutcomes :
        LET r == generate_rounds(sessionId, GEMINI_API_KEY, rounds_cache, outcomes) IN
        /\ rounds_cache' = r.cache
        /\ served' = Remember(sessionId, r)
        /\ resp' = Response("generate-rounds", sessionId, r)
        /\ UNCHANGED <<call, reqs, GEMINI_API_KEY, gw, dbVars>>

\* POST /analyze-response handled by analyze_response
AnalyzeResponse ==
    \E outcomes \in AttemptOutcomes :
        LET r == analyze_response(GEMINI_API_KEY, rounds_cache, outcomes) IN
        /\ rounds_cache' = r.cache
        /\ resp' = Response("analyze-response", PyNone, r)
        /\ UNCHANGED <<call, reqs, GEMINI_API_KEY, served, gw, dbVars>>

\* GET /health handled by health_check
HealthCheck ==
    /\ resp' = [NoResponse EXCEPT !.op = "health", !.status = 200,
                                  !.payload = PyBool(health_check(GEMINI_API_KEY).api_key_configured)]
    /\ UNCHANGED <<call, reqs, GEMINI_API_KEY, rounds_cache, served, gw, dbVars>>

Next == GenerateRounds \/ AnalyzeResponse \/ HealthCheck

Spec == Init /\ [][Next]_vars

TypeOK ==
    /\ GEMINI_API_KEY \in ApiKeys
    /\ DOMAIN rounds_cache \subseteq SessionIds
    /\ DOMAIN served \subseteq DOMAIN rounds_cache
    /\ resp.status \in {0, 200, 201, 404, 500}

---------------------------------------------------------------------------
(* Properties of the storybook handlers, checked under Spec.               *)

StorybookOps == {"generate-rounds", "analyze-response"}

\* the text the handler receives from the gateway for these attempts, or None
GatewayText(outcomes) ==
    call_gemini_with_retry(GEMINI_API_KEY, max_retries_default, outcomes).ret

\* the payload the extractor recovers for these attempts, or None
Extracted(outcomes) ==
    IF NoText(GatewayText(outcomes)) THEN PyNone
    ELSE parse_json_response(GatewayText(outcomes).x)

\* C1: whatever the provider does, generate-rounds and analyze-response
\* answer 200 with source "ai" or "fallback"; they never raise.
C1_NeverErrorStatus ==
    resp.op \in StorybookOps =>
        resp.status = 200 /\ resp.source \in {"ai", "fallback"}

\* C2: once generate-rounds has answered "ai" for a non-empty sessionId,
\* every later call with that sessionId answers the same rounds, tagged
\* "ai", without a provider call.
C2_CachedRoundsRepeat ==
    [][\A s \in DOMAIN served :
          (resp'.op = "generate-rounds" /\ resp'.sessionId = s) =>
              /\ resp'.status = 200
              /\ resp'.source = "ai"
              /\ resp'.payload = served[s]
              /\ resp'.calls = 0]_vars

\* a second response for a session that was already served from the provider
C2_Witness ==
    /\ resp.op = "generate-rounds"
    /\ resp.sessionId \in DOMAIN served
    /\ resp.calls = 0
    /\ resp.payload = served[resp.sessionId]

\* the rounds of a payload as the validator's contract reads it: the list
\* under "rounds" of an object
RoundsOf(p) ==
    IF p.t = "obj" /\ PyIn("rounds", p) /\ DictGet(p, "rounds").t = "arr"
    THEN DictGet(p, "rounds").a
    ELSE <<>>

\* the round lacks one of id, type, promptText, items
LacksField(r) ==
    r.t # "obj" \/ \E k \in {"id", "type", "promptText", "items"} : ~PyIn(k, r)

\* the number of items of a round that carries items
ItemCount(r) ==
    IF IsContainer(DictGet(r, "items")) THEN PyLen(DictGet(r, "items")) ELSE 0

\* the batch violates the round-batch contract
InvalidBatch(p) ==
    \/ Len(RoundsOf(p)) < 2
    \/ \E i \in 1..2 : LacksField(RoundsOf(p)[i]) \/ ItemCount(RoundsOf(p)[i]) < 5

\* the last response is the one generate_rounds gives to this request on a
\* cache miss (a rejected batch leaves the cache as it was)
AnsweredGenerate(sessionId, outcomes) ==
    /\ resp.op = "generate-rounds"
    /\ resp.sessionId = sessionId
    /\ ~(Truthy(sessionId) /\ sessionId \in DOMAIN rounds_cache)
    /\ resp = Response("generate-rounds", sessionId,
                       generate_rounds(sessionId, GEMINI_API_KEY, rounds_cache, outcomes))

\* C3: a request whose extracted payload violates the round-batch contract
\* is answered with source "fallback" and the fallback catalog.
C3_InvalidBatchFallsBack ==
    \A sessionId \in SessionIds, outcomes \in AttemptOutcomes :
        (InvalidBatch(Extracted(outcomes)) /\ AnsweredGenerate(sessionId, outcomes))
        => resp.status = 200 /\ resp.source = "fallback" /\ resp.payload = FALLBACK_ROUNDS

\* C4: an "ai" response, fresh or cached, holds exactly 2 rounds of at least
\* 5 items each; a "fallback" response holds the 2-round fallback catalog.
C4_TwoRounds ==
    (resp.op = "generate-rounds" /\ resp.status = 200) =>
        /\ resp.source = "ai" =>
              /\ resp.payload.t = "arr"
              /\ Len(resp.payload.a) = 2
              /\ \A i \in 1..2 : ~LacksField(resp.payload.a[i])
                                 /\ ItemCount(resp.payload.a[i]) >= 5
        /\ resp.source = "fallback" =>
              resp.payload = FALLBACK_ROUNDS /\ Len(FALLBACK_ROUNDS.a) = 2

\* an "ai" response cut from a provider batch of more than 2 rounds
C4_Witness ==
    /\ resp.source = "ai"
    /\ \E outcomes \in AttemptOutcomes :
          /\ Len(RoundsOf(Extracted(outcomes))) > 2
          /\ resp = Response("generate-rounds", PyNone,
                             generate_rounds(PyNone, GEMINI_API_KEY, rounds_cache, outcomes))

\* C5: every round generate-rounds returns has 5 or 6 items.
C5_ItemCountFiveOrSix ==
    (resp.op = "generate-rounds" /\ resp.status = 200) =>
        \A i \in 1..Len(resp.payload.a) : ItemCount(resp.payload.a[i]) \in 5..6

\* C6: without a credential /health reports api_key_configured false, and
\* generate-rounds (no cache hit) and analyze-response answer "fallback"
\* with no provider call and no backoff wait.
C6_NoCredentialNoCall ==
    ~Truthy(GEMINI_API_KEY) =>
        /\ resp.op = "health" => resp.payload = PyBool(FALSE)
        /\ (resp.op \in StorybookOps /\ resp.sessionId \notin DOMAIN rounds_cache) =>
              /\ resp.status = 200
              /\ resp.source = "fallback"
              /\ resp.calls = 0
              /\ resp.sleeps = 0

\* a storybook response given while the credential is the empty string
C6_Witness ==
    /\ GEMINI_API_KEY = PyStr(<<>>)
    /\ resp.op = "analyze-response"
    /\ resp.source = "fallback"

\* the cache entry is a batch the validation loop lets through: two rounds
\* with id, type, promptText and at least 5 items, tagged aiGenerated
PassedValidation(batch) ==
    /\ batch.t = "arr"
    /\ Len(batch.a) = 2
    /\ \A i \in 1..2 : ~LacksField(batch.a[i]) /\ ItemCount(batch.a[i]) >= 5
    /\ ValidateLoop(batch.a, 1, <<>>) = [out |-> "ok", rounds |-> batch]

\* the session cache with the batch stored under session s
CacheWith(cache, s, batch) ==
    [x \in DOMAIN cache \cup {s} |-> IF x = s THEN batch ELSE cache[x]]

\* what one step does to the session cache
CacheStep ==
    /\ (resp'.op = "generate-rounds"
          /\ (resp'.source = "fallback" \/ ~Truthy(resp'.sessionId)))
        => rounds_cache' = rounds_cache
    /\ rounds_cache' # rounds_cache
        => /\ resp'.op = "generate-rounds"
           /\ resp'.source = "ai"
           /\ Truthy(resp'.sessionId)
           /\ resp'.sessionId \notin DOMAIN rounds_cache
           /\ rounds_cache' = CacheWith(rounds_cache, resp'.sessionId, resp'.payload)
    /\ (resp'.op = "generate-rounds" /\ resp'.sessionId \notin DOMAIN rounds_cache
          /\ Truthy(GEMINI_API_KEY))
        => resp'.calls >= 1
    /\ (resp.op = "generate-rounds" /\ resp.source = "fallback"
          /\ resp'.op = "generate-rounds" /\ resp'.sessionId = resp.sessionId
          /\ Truthy(GEMINI_API_KEY))
        => resp'.calls >= 1

\* C22: a generate-rounds call that answers "fallback", or whose sessionId
\* is absent or empty, leaves the session cache unchanged; the cache changes
\* only by an "ai" response storing its batch under the request's sessionId;
\* every cache entry is a batch that passed the round-batch validation; and
\* the session of a fallback response is not in the cache, so the next call
\* with that sessionId goes to the gateway again and, with a credential,
\* makes a provider call.
C22_FallbackNeverCached ==
    /\ [](\A s \in DOMAIN rounds_cache : PassedValidation(rounds_cache[s]))
    /\ []((resp.op = "generate-rounds" /\ resp.source = "fallback")
             => resp.sessionId \notin DOMAIN rounds_cache)
    /\ [][CacheStep]_vars

\* a fallback response for a named session after provider calls, while
\* another session's batch is cached
C22_Witness ==
    /\ resp.op = "generate-rounds"
    /\ resp.source = "fallback"
    /\ Truthy(resp.sessionId)
    /\ resp.calls >= 1
    /\ rounds_cache # EmptyMap
    /\ resp.sessionId \notin DOMAIN rounds_cache

\* the payload carries all six required analysis fields
HasAllSix(p) == IsContainer(p) /\ \A i \in 1..Len(required_fields) : PyIn(required_fields[i], p)

\* the last response is the one analyze_response gives to these attempts
AnsweredAnalyze(outcomes) ==
    /\ resp.op = "analyze-response"
    /\ resp = Response("analyze-response", PyNone,
                       analyze_response(GEMINI_API_KEY, rounds_cache, outcomes))

\* C9: analyze-response answers "ai" only for a payload with all six
\* fields; when the gateway fails, extraction fails or a field is missing
\* it answers "fallback" with one and the same fallback analysis.
C9_SixFieldsOrFallback ==
    \A outcomes \in AttemptOutcomes :
        AnsweredAnalyze(outcomes) =>
            /\ resp.source = "ai" => HasAllSix(Extracted(outcomes))
            /\ ~HasAllSix(Extracted(outcomes)) =>
                  /\ resp.status = 200
                  /\ resp.source = "fallback"
                  /\ resp.payload = fallback_analysis_no_text
                  /\ resp.payload = fallback_analysis_no_parse
                  /\ resp.payload = fallback_analysis_missing_field

---------------------------------------------------------------------------
(* The gateway on its own: call_gemini_with_retry applied to every         *)
(* credential, attempt budget and run of attempt outcomes.                 *)

\* the largest attempt budget the gateway is called with
MaxAttempts == 3

\* texts a provider attempt may answer with: empty, prose, JSON
GatewayTexts == {<<>>, <<Prose>>, json_dumps(PyDict(<<>>))}

GatewayOutcomes == {Raises} \cup {Answers(t) : t \in GatewayTexts}

\* one call of the gateway, recorded with its inputs
GatewayCall ==
    \E max_retries \in 0..MaxAttempts :
    \E outcomes \in [1..max_retries -> GatewayOutcomes] :
        LET g == call_gemini_with_retry(GEMINI_API_KEY, max_retries, outcomes) IN
        /\ gw' = [t |-> "call", max_retries |-> max_retries, outcomes |-> outcomes,
                  ret |-> g.ret, trace |-> g.trace]
        /\ UNCHANGED <<call, reqs, GEMINI_API_KEY, rounds_cache, served, resp, dbVars>>

NextGateway == GatewayCall

SpecGateway == Init /\ [][NextGateway]_vars

\* calls separated by exactly one sleep: call, sleep, call, ..., call
Alternating(trace, calls) ==
    /\ Len(trace) = (IF calls = 0 THEN 0 ELSE 2 * calls - 1)
    /\ \A i \in 1..Len(trace) : trace[i] = (IF i % 2 = 1 THEN "call" ELSE "sleep")

\* C7: with a credential, a gateway call whose attempts all fail makes
\* exactly max_retries provider calls with one backoff wait between
\* consecutive attempts and returns None; a call whose k-th attempt is the
\* first to succeed makes exactly k provider calls and returns its text.
C7_RetryBudget ==
    (gw.t = "call" /\ Truthy(GEMINI_API_KEY)) =>
        /\ (\A i \in 1..gw.max_retries : gw.outcomes[i].raises) =>
              gw.ret = PyNone /\ Alternating(gw.trace, gw.max_retries)
        /\ \A k \in 1..gw.max_retries :
              (~gw.outcomes[k].raises /\ \A j \in 1..(k - 1) : gw.outcomes[j].raises) =>
                  gw.ret = PyText(gw.outcomes[k].text) /\ Alternating(gw.trace, k)

\* a call that made every attempt its budget allows, with waits in between
C7_Witness ==
    /\ gw.t = "call"
    /\ Truthy(GEMINI_API_KEY)
    /\ gw.max_retries = MaxAttempts
    /\ \A i \in 1..(gw.max_retries - 1) : gw.outcomes[i].raises
    /\ Count(gw.trace, "call") = MaxAttempts

\* C8 as claimed: what the gateway returns for an absent credential differs
\* from what it returns after max_retries failed attempts.
C8_FailureKindsDistinct ==
    (gw.t = "call" /\ ~Truthy(GEMINI_API_KEY)) =>
        gw.ret # call_gemini_with_retry(PyStr(<<"key">>), gw.max_retries,
                                        [i \in 1..gw.max_retries |-> Raises]).ret

\* C8 as the code has it: the gateway returns None both for an absent
\* credential and after max_retries failed attempts; only /health, through
\* api_key_configured, tells an absent credential apart.
C8_SameFailureSignal ==
    /\ (gw.t = "call" /\ ~Truthy(GEMINI_API_KEY)) =>
          /\ gw.ret = PyNone
          /\ gw.trace = <<>>
          /\ ~health_check(GEMINI_API_KEY).api_key_configured
    /\ (gw.t = "call" /\ Truthy(GEMINI_API_KEY)
        /\ \A i \in 1..gw.max_retries : gw.outcomes[i].raises) =>
          /\ gw.ret = PyNone
          /\ health_check(GEMINI_API_KEY).api_key_configured

\* a gateway call without a credential although the provider would answer
C8_Witness ==
    /\ gw.t = "call"
    /\ GEMINI_API_KEY = PyNone
    /\ gw.max_retries >= 1
    /\ ~gw.outcomes[1].raises
    /\ gw.ret = PyNone

---------------------------------------------------------------------------
(* app/main.py and app/tests/routes.py: the storybook endpoints behind the *)
(* capturing middleware, and test submission.                              *)

\* the most requests one run handles
MaxRequests == 2

\* the JSON body of a 200 response of a storybook handler
ResponseJson(field, r) ==
    PyDict(<< [key |-> field,    val |-> r.payload],
              [key |-> "source", val |-> PyStr(<<r.source>>)] >>)

\* the record capture_storybook_responses writes for /generate-rounds
rounds_doc(sessionId, resp_json, now) ==
    [sessionId |-> sessionId, response |-> resp_json, createdAt |-> now]

\* the record capture_storybook_responses writes for /analyze-response
analysis_doc(sessionId, studentId, resp_json, now) ==
    [sessionId |-> sessionId, studentId |-> studentId, analysis |-> resp_json,
     createdAt |-> now]

\* an insert that replaces what the collection held
insert_one_replacing(col, doc, insert_ok) == IF insert_ok THEN <<doc>> ELSE col

\* insert_one inside the middleware's try: the write, or the swallowed failure
insert_one(col, doc, insert_ok) == IF insert_ok THEN Append(col, doc) ELSE col

\* capture_storybook_responses around a storybook handler's result r: an
\* exception of the handler passes through call_next before anything is
\* written
Capture(col, r, doc, insert_ok) ==
    IF r.status = 500 THEN col ELSE insert_one(col, doc, insert_ok)

\* the line the middleware's except prints when the insert raised, "" when
\* the handler raised before the insert or the insert went through
capture_print(r, insert_ok) ==
    IF r.status # 500 /\ ~insert_ok THEN "DB write failed" ELSE ""

\* a middleware that lets the insert's exception escape
captured_response_insert_fatal(r, insert_ok) ==
    IF r.status # 500 /\ ~insert_ok THEN Raised(r.cache, r.trace) ELSE r

\* what capture_storybook_responses returns to the client around the
\* handler's result r: the buffered body under the handler's status code,
\* after the insert went through or its exception was swallowed
captured_response(r, insert_ok) ==
    Result(r.status, r.source, r.payload, r.cache, r.trace)

\* provider behaviour during captured requests
AppOutcomes ==
    {<<Raises, Raises>>,
     <<Answers(json_dumps(AnalysisObj(required_fields))), Raises>>,
     <<Answers(json_dumps(RoundsPayload(PyList(<<RoundObj("ai-4", 5), RoundObj("ai-5", 6)>>)))), Raises>>,
     <<Answers(json_dumps(PyNum(5))), Raises>>}

AppSessionIds == {PyNone, PyStr(<<"s1">>), PyStr(<<"s2">>)}

\* POST /api/storybook/.../generate-rounds through the middleware
HttpGenerateRounds ==
    /\ clock < MaxRequests
    /\ \E sessionId \in AppSessionIds, outcomes \in AppOutcomes, insert_ok \in BOOLEAN :
        LET r == generate_rounds(sessionId, GEMINI_API_KEY, rounds_cache, outcomes)
            now == clock + 1
        IN
        /\ rounds_cache' = r.cache
        /\ served' = Remember(sessionId, r)
        /\ resp' = Response("generate-rounds", sessionId, captured_response(r, insert_ok))
        /\ test_ai_rounds_col' =
              Capture(test_ai_rounds_col, r,
                      rounds_doc(sessionId, ResponseJson("rounds", r), now), insert_ok)
        /\ printed' = capture_print(r, insert_ok)
        /\ clock' = now
        /\ UNCHANGED <<call, reqs, GEMINI_API_KEY, gw, test_ai_analysis_col, tests_col, students_col,
                       parents_col, student_ids>>

\* POST /api/storybook/.../analyze-response through the middleware; the
\* raw body may carry a studentId next to the sessionId
HttpAnalyzeResponse ==
    /\ clock < MaxRequests
    /\ \E sessionId \in AppSessionIds, studentId \in {PyNone, PyStr(<<"st1">>)},
          outcomes \in AppOutcomes, insert_ok \in BOOLEAN :
        LET r == analyze_response(GEMINI_API_KEY, rounds_cache, outcomes)
            now == clock + 1
        IN
        /\ rounds_cache' = r.cache
        /\ resp' = Response("analyze-response", sessionId, captured_response(r, insert_ok))
        /\ test_ai_analysis_col' =
              Capture(test_ai_analysis_col, r,
                      analysis_doc(sessionId, studentId, ResponseJson("analysis", r), now),
                      insert_ok)
        /\ printed' = capture_print(r, insert_ok)
        /\ clock' = now
        /\ UNCHANGED <<call, reqs, GEMINI_API_KEY, served, gw, test_ai_rounds_col, tests_col, students_col,
                       parents_col, student_ids>>

\* the names app/tests/routes.py binds at module level
tests_routes_globals ==
    {"APIRouter", "HTTPException", "status", "Depends", "Query", "JSONResponse",
     "TestSubmitUnion", "success_response", "error_response", "students_col",
     "tests_col", "get_current_parent", "ObjectId", "datetime", "Optional", "router",
     "submit_test", "get_history", "get_test_detail", "storybook_generate",
     "storybook_analyze"}

\* the most ObjectIds student inserts are given in one run
MaxStudents == 3

\* the ObjectId, as a string, that the i-th insert into a collection is
\* given; prefix tells the collections apart
oid(prefix, i) == prefix \o ToString(i)

\* strings bson.ObjectId accepts: the ids student inserts can be given, and
\* an id no document has
ObjectIdStrings == {oid("st", i) : i \in 1..MaxStudents} \cup {"st9"}

\* a lookup of the student by _id alone
find_student_any_parent(col, studentId, parent_id) ==
    IF studentId \in ObjectIdStrings /\ \E d \in col : d._id = studentId
    THEN CHOOSE d \in col : d._id = studentId
    ELSE PyNone

\* students_col.find_one({"_id": ObjectId(studentId), "parentId": parent_id}),
\* None when nothing matches or ObjectId raises
find_student(col, studentId, parent_id) ==
    IF studentId \in ObjectIdStrings
       /\ \E d \in col : d._id = studentId /\ d.parentId = parent_id
    THEN CHOOSE d \in col : d._id = studentId /\ d.parentId = parent_id
    ELSE PyNone

\* col.find_one({field: value}, sort=[("createdAt", -1)])
find_latest(col, field, value) ==
    LET hits == {i \in 1..Len(col) : col[i][field] = value} IN
    IF hits = {} THEN PyNone
    ELSE col[CHOOSE i \in hits : \A j \in hits : col[j].createdAt <= col[i].createdAt]

\* the try block of submit_test that looks up the server-side analysis:
\* a name the module does not bind raises NameError, which the except turns
\* into None
server_ai_analysis(results, studentId, analysis_col) ==
    IF "test_ai_analysis_col" \notin tests_routes_globals THEN PyNone
    ELSE IF Truthy(results.sessionId)
         THEN find_latest(analysis_col, "sessionId", results.sessionId)
         ELSE find_latest(analysis_col, "studentId", PyStr(<<studentId>>))

Absent == [t |-> "absent"]

\* a submit_test that stores the client's aiAnalysis as it came
stored_ai_analysis_unmarked(results, studentId, analysis_col) ==
    LET found == server_ai_analysis(results, studentId, analysis_col) IN
    IF found # PyNone /\ Truthy(found.analysis) THEN found.analysis
    ELSE IF Truthy(results.aiAnalysis) THEN results.aiAnalysis
         ELSE Absent

\* the aiAnalysis submit_test stores, Absent when it sets none
stored_ai_analysis(results, studentId, analysis_col) ==
    LET found == server_ai_analysis(results, studentId, analysis_col) IN
    IF found # PyNone /\ Truthy(found.analysis) THEN found.analysis
    ELSE IF Truthy(results.aiAnalysis)
         THEN PyDict(<< [key |-> "source",   val |-> PyStr(<<"frontend">>)],
                        [key |-> "analysis", val |-> results.aiAnalysis] >>)
         ELSE Absent

\* an aiAnalysis a client may put into results
ClientAnalysis == PyDict(<<[key |-> "summary", val |-> PyStr(<<"made up by the client">>)]>>)

\* submit_test for a payload with this studentId and these results, sent by
\* the authenticated parent parent_id at time now
submit_test(parent_id, studentId, results, now) ==
    /\ clock' = now
    /\ printed' = ""
    /\ IF find_student(students_col, studentId, parent_id) = PyNone
       THEN /\ resp' = [NoResponse EXCEPT !.op = "submit", !.status = 404,
                                          !.source = "STUDENT_NOT_FOUND"]
            /\ tests_col' = tests_col
       ELSE /\ tests_col' =
                  Append(tests_col,
                         [studentId |-> studentId, testType |-> "storybook",
                          results |-> results, createdAt |-> now,
                          aiAnalysis |-> stored_ai_analysis(results, studentId,
                                                            test_ai_analysis_col)])
            /\ resp' = [NoResponse EXCEPT !.op = "submit", !.status = 201]

\* POST /tests/submit by an authenticated parent
SubmitTest ==
    /\ clock < MaxRequests
    /\ \E parent_id \in Parents, studentId \in ObjectIdStrings \cup {"not-an-id"},
          sessionId \in AppSessionIds, aiAnalysis \in {PyNone, ClientAnalysis} :
        /\ submit_test(parent_id, studentId,
                       [sessionId |-> sessionId, aiAnalysis |-> aiAnalysis], clock + 1)
        /\ UNCHANGED <<call, reqs, GEMINI_API_KEY, rounds_cache, served, gw, test_ai_rounds_col,
                       test_ai_analysis_col, students_col, parents_col, student_ids>>

NextApp == HttpGenerateRounds \/ HttpAnalyzeResponse \/ SubmitTest

SpecApp == Init /\ [][NextApp]_vars

\* the analysis records persisted for session s, oldest first
RecordsFor(s) == SelectSeq(test_ai_analysis_col, LAMBDA d : d.sessionId = s)

\* C10: a test submitted with results.sessionId = s, when analysis records
\* for s have been persisted, is stored with the analysis of the most
\* recently created record for s as its aiAnalysis.
C10_ServerAnalysisAttached ==
    (resp.op = "submit" /\ resp.status = 201) =>
        LET doc == tests_col[Len(tests_col)]
            recs == RecordsFor(doc.results.sessionId)
        IN  (Truthy(doc.results.sessionId) /\ Len(recs) > 0) =>
                doc.aiAnalysis = recs[Len(recs)].analysis

\* the response the storybook handler behind op gives to this request
HandlerResponse(op, sessionId, outcomes) ==
    Response(op, sessionId,
             IF op = "generate-rounds"
             THEN generate_rounds(sessionId, GEMINI_API_KEY, rounds_cache, outcomes)
             ELSE analyze_response(GEMINI_API_KEY, rounds_cache, outcomes))

\* C11: a request whose record insert failed is answered with the handler's
\* response, status and body as when the insert succeeds: status 200 and the
\* body the handler built from the state before the request.
C11_InsertFailureInvisible ==
    [][(clock' # clock /\ printed' = "DB write failed") =>
          /\ resp'.op \in StorybookOps
          /\ resp'.status = 200
          /\ \E outcomes \in AppOutcomes :
                resp' = HandlerResponse(resp'.op, resp'.sessionId, outcomes)]_vars

\* a generate-rounds request answered with provider rounds although its
\* insert failed and left the collection empty
C11_Witness ==
    /\ printed = "DB write failed"
    /\ resp.op = "generate-rounds"
    /\ resp.status = 200
    /\ resp.source = "ai"
    /\ test_ai_rounds_col = <<>>

\* a is an initial part of b
IsPrefix(a, b) == Len(a) <= Len(b) /\ SubSeq(b, 1, Len(a)) = a

\* the generation record of the request just answered by resp
RecordOf(r, now) == rounds_doc(r.sessionId, ResponseJson("rounds", r), now)

\* the last request was a generate-rounds call that returned a response
GenerateAnswered == clock' # clock /\ resp'.op = "generate-rounds" /\ resp'.status = 200

\* C12 as stated: every generate-rounds call that returns (AI result, cache
\* hit or fallback) appends exactly one generation record with the request's
\* sessionId and the response body, and no step updates or deletes a record.
C12_ExactlyOneRecord ==
    [][/\ IsPrefix(test_ai_rounds_col, test_ai_rounds_col')
       /\ GenerateAnswered =>
             test_ai_rounds_col' = Append(test_ai_rounds_col, RecordOf(resp', clock'))]_vars

\* C12 amended: a generate-rounds call that returns appends exactly one
\* generation record with the request's sessionId and the response body when
\* the insert succeeds and none when the insert fails; no step updates or
\* deletes a record.
C12_OneRecordUnlessInsertFails ==
    [][/\ IsPrefix(test_ai_rounds_col, test_ai_rounds_col')
       /\ GenerateAnswered =>
             test_ai_rounds_col' =
                 IF printed' = "DB write failed" THEN test_ai_rounds_col
                 ELSE Append(test_ai_rounds_col, RecordOf(resp', clock'))]_vars

\* two records for one session: the provider's batch, then the cache hit
\* that repeated it
C12_Witness ==
    /\ Len(test_ai_rounds_col) = 2
    /\ test_ai_rounds_col[1].sessionId = PyStr(<<"s1">>)
    /\ test_ai_rounds_col[2] = RecordOf(resp, clock)
    /\ test_ai_rounds_col[2].response = test_ai_rounds_col[1].response
    /\ resp.source = "ai"
    /\ resp.calls = 0

---------------------------------------------------------------------------
(* app/ai/worddetective.py.  A word is a sequence of characters.           *)

ascii_uppercase ==
    <<"A", "B", "C", "D", "E", "F", "G", "H", "I", "J", "K", "L", "M",
      "N", "O", "P", "Q", "R", "S", "T", "U", "V", "W", "X", "Y", "Z">>

ascii_lowercase ==
    <<"a", "b", "c", "d", "e", "f", "g", "h", "i", "j", "k", "l", "m",
      "n", "o", "p", "q", "r", "s", "t", "u", "v", "w", "x", "y", "z">>

\* s.lower()
str_lower(s) ==
    [i \in 1..Len(s) |->
        IF \E j \in 1..Len(ascii_uppercase) : ascii_uppercase[j] = s[i]
        THEN ascii_lowercase[CHOOSE j \in 1..Len(ascii_uppercase) : ascii_uppercase[j] = s[i]]
        ELSE s[i]]

\* s.replace(" ", "")
str_remove_spaces(s) == SelectSeq(s, LAMBDA ch : ch # " ")

\* sub in s, for strings
Contains(s, sub) ==
    \E i \in 0..(Len(s) - Len(sub)) : SubSeq(s, i + 1, i + Len(sub)) = sub

\* the loop of simple_mistake_type: some i in range(len(wrong) - 1) passes
\* the test of line 73 (indices here are the source's plus one)
HasTransposition(correct, wrong) ==
    \E i \in 0..(Len(wrong) - 2) :
        /\ i < Len(correct) - 1
        /\ wrong[i + 2] = correct[i + 1]
        /\ wrong[i + 1] = correct[i + 2]

\* "ei" in s.lower() or "ie" in s.lower()
HasDigraph(s) ==
    Contains(str_lower(s), <<"e", "i">>) \/ Contains(str_lower(s), <<"i", "e">>)

\* a classifier that compares the lengths before it scans for a swap
simple_mistake_type_length_first(correct, wrong) ==
    IF Len(correct) = 0 \/ Len(wrong) = 0 THEN "other"
    ELSE IF str_remove_spaces(str_lower(correct)) = str_remove_spaces(str_lower(wrong))
    THEN "case/spacing"
    ELSE IF Len(wrong) < Len(correct) THEN "missing_letter"
    ELSE IF Len(wrong) > Len(correct) THEN "extra_letter"
    ELSE IF HasTransposition(correct, wrong) THEN "transposition"
    ELSE IF HasDigraph(correct) /\ HasDigraph(wrong) THEN "ei/ie_confusion"
    ELSE "other"

simple_mistake_type(correct, wrong) ==
    IF Len(correct) = 0 \/ Len(wrong) = 0 THEN "other"
    ELSE IF str_remove_spaces(str_lower(correct)) = str_remove_spaces(str_lower(wrong))
    THEN "case/spacing"
    ELSE IF HasTransposition(correct, wrong) THEN "transposition"
    ELSE IF Len(wrong) < Len(correct) THEN "missing_letter"
    ELSE IF Len(wrong) > Len(correct) THEN "extra_letter"
    ELSE IF HasDigraph(correct) /\ HasDigraph(wrong) THEN "ei/ie_confusion"
    ELSE "other"

\* d.get(k, default) on a dict
DictGetOr(d, k, default) == IF PyIn(k, d) THEN DictGet(d, k) ELSE default

\* an AttemptEntry; responseTimeSec is left at its default None
AttemptEntry(presentedPair, chosenWord, chosenWasCorrect) ==
    [presentedPair |-> presentedPair, chosenWord |-> chosenWord,
     chosenWasCorrect |-> chosenWasCorrect, responseTimeSec |-> PyNone]

\* score / total_questions * 100 as the fraction num/den; the float the
\* code computes is 80.0 and 60.0 exactly for the ratios 4/5 and 3/5, and
\* stays on the right side of both thresholds for every other ratio
Accuracy(score, total_questions) ==
    IF total_questions # 0 THEN [num |-> score * 100, den |-> total_questions]
    ELSE [num |-> 0, den |-> 1]

\* accuracy > n
AccuracyAbove(accuracy, n) == accuracy.num > n * accuracy.den

\* round(accuracy, 2), in hundredths
Round2(accuracy) == (2 * 100 * accuracy.num + accuracy.den) \div (2 * accuracy.den)

\* a risk expression whose thresholds are inclusive
risk_band_inclusive(accuracy) ==
    IF accuracy.num >= 80 * accuracy.den THEN "low"
    ELSE IF accuracy.num >= 60 * accuracy.den THEN "monitor"
    ELSE "high"

\* the "risk" expression of analyze_results
risk_band(accuracy) ==
    IF AccuracyAbove(accuracy, 80) THEN "low"
    ELSE IF AccuracyAbove(accuracy, 60) THEN "monitor"
    ELSE "high"

\* the attempts the mistake loop of analyze_results counts
Mistakes(attempts) ==
    {i \in 1..Len(attempts) :
        ~Truthy(attempts[i].chosenWasCorrect) /\ Truthy(attempts[i].chosenWord)}

\* the dict analyze_results returns, and the status FastAPI answers with
\* after validating it against AnalyzeResponse (PerQuestion.correct: str)
analyze_results(attempts) ==
    LET total_questions == Len(attempts)
        score == Cardinality({i \in 1..Len(attempts) : Truthy(attempts[i].chosenWasCorrect)})
        accuracy == Accuracy(score, total_questions)
        mtype(i) == simple_mistake_type(
                        DictGetOr(attempts[i].presentedPair, "correct", PyStr(<<>>)).s,
                        attempts[i].chosenWord.s)
        key(i) == [correct |-> DictGetOr(attempts[i].presentedPair, "correct", PyNone),
                   chosen |-> attempts[i].chosenWord]
        perQuestion == [i \in 1..Len(attempts) |->
                           [correct |-> DictGetOr(attempts[i].presentedPair, "correct", PyNone),
                            chosen |-> attempts[i].chosenWord,
                            wasCorrect |-> Truthy(attempts[i].chosenWasCorrect)]]
    IN  [status |-> IF \A i \in 1..Len(attempts) : perQuestion[i].correct.t = "str"
                    THEN 200 ELSE 500,
         score |-> score,
         totalQuestions |-> total_questions,
         accuracy |-> Round2(accuracy),
         commonMistakes |->
             [k \in {key(i) : i \in Mistakes(attempts)} |->
                 Cardinality({i \in Mistakes(attempts) : key(i) = k})],
         perQuestion |-> perQuestion,
         risk |-> risk_band(accuracy),
         mistakeTypes |->
             [m \in {mtype(i) : i \in Mistakes(attempts)} |->
                 Cardinality({i \in Mistakes(attempts) : mtype(i) = m})],
         avgTimeSec |-> PyNone]

\* a WordPair of the response model, from two words
WordPair(correct, wrong) == [correct |-> PyStr(correct), wrong |-> PyStr(wrong)]

FALLBACK_WORD_PAIRS ==
    << WordPair(<<"f", "r", "i", "e", "n", "d">>,
                <<"f", "r", "e", "i", "n", "d">>),
       WordPair(<<"b", "e", "c", "a", "u", "s", "e">>,
                <<"b", "e", "c", "u", "a", "s", "e">>),
       WordPair(<<"b", "e", "a", "u", "t", "i", "f", "u", "l">>,
                <<"b", "e", "a", "t", "i", "f", "u", "l">>),
       WordPair(<<"t", "o", "m", "o", "r", "r", "o", "w">>,
                <<"t", "o", "m", "m", "o", "r", "o", "w">>),
       WordPair(<<"r", "e", "c", "e", "i", "v", "e">>,
                <<"r", "e", "c", "i", "e", "v", "e">>),
       WordPair(<<"d", "i", "f", "f", "e", "r", "e", "n", "t">>,
                <<"d", "i", "f", "f", "r", "e", "n", "t">>) >>

\* a Markdown code fence (three backquotes, with or without json) followed
\* by a newline, and a fence that no newline follows
FenceOpen == [k |-> "fence-newline"]

Fence == [k |-> "fence"]

\* the two re.sub calls of generate_words: every fence with a newline is
\* removed, then a fence at the very end
StripFences(text) ==
    LET body == SelectSeq(text, LAMBDA tok : tok # FenceOpen) IN
    IF Len(body) > 0 /\ body[Len(body)] = Fence THEN SubSeq(body, 1, Len(body) - 1)
    ELSE body

\* the values `for obj in v` visits, for a container v: the elements of a
\* list, the keys of a dict, the characters of a str
Iterate(v) ==
    CASE v.t = "arr" -> v.a
      [] v.t = "obj" -> [i \in 1..Len(v.m) |-> PyStr(<<v.m[i].key>>)]
      [] v.t = "str" -> [i \in 1..Len(v.s) |-> PyStr(<<v.s[i]>>)]

\* "correct" in obj and "wrong" in obj, for a container obj
HasBothWords(obj) == PyIn("correct", obj) /\ PyIn("wrong", obj)

\* obj passes as a WordPair of the response model: a dict whose correct and
\* wrong are strings
IsWordPair(obj) ==
    /\ obj.t = "obj"
    /\ DictGet(obj, "correct").t = "str"
    /\ DictGet(obj, "wrong").t = "str"

\* pairs[:6]
FirstSix(pairs) == SubSeq(pairs, 1, IF Len(pairs) < 6 THEN Len(pairs) ELSE 6)

\* the answer of generate_words with the fallback list
WordsFallback == [status |-> 200, source |-> "fallback", wordPairs |-> FALLBACK_WORD_PAIRS]

\* generate_words on what the provider call did, and the status FastAPI
\* answers with after validating the returned dict against GenerateResponse
generate_words(outcome) ==
    IF outcome = Raises THEN WordsFallback
    ELSE LET parsed == json_loads(StripFences(outcome.text)) IN
         IF ~parsed.ok \/ ~IsContainer(parsed.val) THEN WordsFallback
         ELSE LET objs == Iterate(parsed.val) IN
              IF \E i \in 1..Len(objs) : ~IsContainer(objs[i]) THEN WordsFallback
              ELSE LET pairs == SelectSeq(objs, HasBothWords) IN
                   IF pairs = <<>> THEN WordsFallback
                   ELSE IF \A i \in 1..Len(FirstSix(pairs)) : IsWordPair(FirstSix(pairs)[i])
                   THEN [status |-> 200, source |-> "provider",
                         wordPairs |->
                             [i \in 1..Len(FirstSix(pairs)) |->
                                 [correct |-> DictGet(FirstSix(pairs)[i], "correct"),
                                  wrong |-> DictGet(FirstSix(pairs)[i], "wrong")]]]
                   ELSE [status |-> 500, source |-> "none", wordPairs |-> <<>>]

---------------------------------------------------------------------------
(* The word-detective functions taken alone: the start state holds the     *)
(* arguments of one call, the action runs the function on them.            *)

MaxWordLen == 3

\* the characters of the generated words
Alphabet == {"e", "i", "E", " "}

Words == UNION {[1..n -> Alphabet] : n \in 0..MaxWordLen}

\* the pairs the classifier is documented with, and two of the fallback list
ExamplePairs ==
    { << <<"t", "h", "e">>, <<"h", "t", "e">> >>,
      << <<"c", "a", "t">>, <<"c", "a", "t", "s">> >>,
      << <<"C", "a", "t">>, <<" ", "c", "a", "t">> >>,
      << <<"r", "e", "c", "e", "i", "v", "e">>, <<"r", "e", "c", "i", "e", "v", "e">> >>,
      << <<"d", "o", "g">>, <<"b", "i", "g">> >>,
      << <<"f", "r", "i", "e", "n", "d">>, <<"f", "r", "e", "i", "n", "d">> >>,
      << <<"d", "i", "f", "f", "e", "r", "e", "n", "t">>, <<"d", "i", "f", "f", "r", "e", "n", "t">> >> }

ClassifierArgs ==
    {[op |-> "args", f |-> "simple_mistake_type", correct |-> p[1], wrong |-> p[2]] :
        p \in ExamplePairs \cup (Words \X Words)}

MaxQuestions == 5

\* the pair shown to the learner, and a pair without its "correct" word
\* (presentedPair is any Dict[str, str])
ThePair ==
    PyDict(<< [key |-> "correct", val |-> PyStr(<<"t", "h", "e">>)],
              [key |-> "wrong",   val |-> PyStr(<<"h", "t", "e">>)] >>)

PairWithoutCorrect == PyDict(<< [key |-> "wrong", val |-> PyStr(<<"h", "t", "e">>)] >>)

\* a right answer, a wrong answer, no answer, an answer of unknown
\* correctness, and a wrong answer to a pair without "correct"
AttemptKinds ==
    { AttemptEntry(ThePair, PyStr(<<"t", "h", "e">>), PyBool(TRUE)),
      AttemptEntry(ThePair, PyStr(<<"h", "t", "e">>), PyBool(FALSE)),
      AttemptEntry(ThePair, PyNone, PyBool(FALSE)),
      AttemptEntry(ThePair, PyStr(<<"h", "t", "e">>), PyNone),
      AttemptEntry(PairWithoutCorrect, PyStr(<<"h", "t", "e">>), PyBool(FALSE)) }

AnalyzeArgs ==
    {[op |-> "args", f |-> "analyze_results", attempts |-> a] :
        a \in UNION {[1..n -> AttemptKinds] : n \in 0..MaxQuestions}}

MaxPairs == 7

\* the i-th well-formed pair object of a provider answer
GoodPair(i) ==
    PyDict(<< [key |-> "correct", val |-> PyStr(<<"w", "o", "r", "d", ToString(i)>>)],
              [key |-> "wrong",   val |-> PyStr(<<"w", "r", "o", "d", ToString(i)>>)] >>)

\* n well-formed pair objects
GoodRun(n) == [i \in 1..n |-> GoodPair(i)]

\* elements a provider answer may hold besides well-formed pairs: a pair of
\* empty strings, a pair whose correct is null, an object without "wrong",
\* a sentence and a list that mention both words, and a number
OddElements ==
    { PyDict(<< [key |-> "correct", val |-> PyStr(<<>>)],
                [key |-> "wrong",   val |-> PyStr(<<>>)] >>),
      PyDict(<< [key |-> "correct", val |-> PyNone],
                [key |-> "wrong",   val |-> PyStr(<<"h", "t", "e">>)] >>),
      PyDict(<< [key |-> "correct", val |-> PyStr(<<"t", "h", "e">>)] >>),
      PyStr(<<"correct", " ", "wrong">>),
      PyList(<<PyStr(<<"correct">>), PyStr(<<"wrong">>)>>),
      PyNum(5) }

\* the JSON values a provider answer may hold: lists that start with up to
\* two odd elements or end with one, and values that are no list
WordPayloads ==
    {PyList(head \o GoodRun(n)) :
        head \in UNION {[1..k -> OddElements] : k \in 0..2}, n \in 0..MaxPairs}
    \cup {PyList(Append(GoodRun(n), e)) : n \in 0..MaxPairs, e \in OddElements}
    \cup {GoodPair(1), PyDict(<<[key |-> "wordPairs", val |-> PyList(GoodRun(2))]>>),
          PyStr(<<"correct", " ", "wrong">>), PyNum(5), PyNone}

\* the texts the provider may answer with: bare JSON, JSON inside a code
\* fence, JSON after a sentence, and JSON cut off
WordTexts ==
    {json_dumps(v) : v \in WordPayloads}
    \cup {<<FenceOpen>> \o json_dumps(PyList(GoodRun(n))) \o <<Fence>> : n \in 0..MaxPairs}
    \cup {<<Fence>> \o json_dumps(PyList(GoodRun(2))) \o <<Fence>>,
          <<FenceOpen>> \o json_dumps(PyList(GoodRun(2))) \o <<FenceOpen, Prose>>,
          <<Prose>> \o json_dumps(PyList(GoodRun(2))),
          <<LBracket>> \o json_dumps(GoodPair(1)),
          <<>>}

GenerateArgs ==
    {[op |-> "args", f |-> "generate_words", outcome |-> o] :
        o \in {Raises} \cup {Answers(t) : t \in WordTexts}}

WordDetectiveArgs == ClassifierArgs \cup AnalyzeArgs \cup GenerateArgs

InitWordDetective ==
    /\ GEMINI_API_KEY = PyNone
    /\ InitServer
    /\ call \in WordDetectiveArgs

\* simple_mistake_type(correct, wrong)
SimpleMistakeType ==
    /\ call.op = "args"
    /\ call.f = "simple_mistake_type"
    /\ call' = [op |-> "done", f |-> call.f, correct |-> call.correct,
                wrong |-> call.wrong,
                ret |-> simple_mistake_type(call.correct, call.wrong)]
    /\ UNCHANGED <<reqs, GEMINI_API_KEY, rounds_cache, served, resp, gw, dbVars>>

\* POST /api/worddetective/analyze handled by analyze_results
AnalyzeResults ==
    /\ call.op = "args"
    /\ call.f = "analyze_results"
    /\ call' = [op |-> "done", f |-> call.f, attempts |-> call.attempts,
                ret |-> analyze_results(call.attempts)]
    /\ UNCHANGED <<reqs, GEMINI_API_KEY, rounds_cache, served, resp, gw, dbVars>>

\* POST /api/worddetective/generate handled by generate_words
GenerateWords ==
    /\ call.op = "args"
    /\ call.f = "generate_words"
    /\ call' = [op |-> "done", f |-> call.f, outcome |-> call.outcome,
                ret |-> generate_words(call.outcome)]
    /\ UNCHANGED <<reqs, GEMINI_API_KEY, rounds_cache, served, resp, gw, dbVars>>

NextWordDetective == SimpleMistakeType \/ AnalyzeResults \/ GenerateWords

SpecWordDetective == InitWordDetective /\ [][NextWordDetective]_vars

\* simple_mistake_type has returned label for (correct, wrong)
Classified(correct, wrong, label) ==
    (call.op = "done" /\ call.f = "simple_mistake_type"
       /\ call.correct = correct /\ call.wrong = wrong) => call.ret = label

\* wrong is correct with one "ei" written "ie" or one "ie" written "ei"
DigraphReversed(correct, wrong) ==
    /\ Len(correct) = Len(wrong)
    /\ \E i \in 1..(Len(correct) - 1) :
          /\ {<<correct[i], correct[i + 1]>>, <<wrong[i], wrong[i + 1]>>}
                = {<<"e", "i">>, <<"i", "e">>}
          /\ \A j \in 1..Len(correct) : j \notin {i, i + 1} => correct[j] = wrong[j]

\* C13: the classifier returns transposition for (the, hte), extra_letter
\* for (cat, cats), case/spacing for (Cat, " cat"), ei/ie_confusion for
\* (receive, recieve) and other for (dog, big); a wrong word that is the
\* correct word with an ei/ie digraph reversed is classified ei/ie_confusion.
C13_ClassifierExamples ==
    /\ Classified(<<"t", "h", "e">>, <<"h", "t", "e">>, "transposition")
    /\ Classified(<<"c", "a", "t">>, <<"c", "a", "t", "s">>, "extra_letter")
    /\ Classified(<<"C", "a", "t">>, <<" ", "c", "a", "t">>, "case/spacing")
    /\ Classified(<<"r", "e", "c", "e", "i", "v", "e">>,
                  <<"r", "e", "c", "i", "e", "v", "e">>, "ei/ie_confusion")
    /\ Classified(<<"d", "o", "g">>, <<"b", "i", "g">>, "other")
    /\ (call.op = "done" /\ call.f = "simple_mistake_type"
          /\ DigraphReversed(call.correct, call.wrong)) => call.ret = "ei/ie_confusion"

\* the labels of the classifier's rules, in the order of the rules
RuleLabels ==
    <<"other", "case/spacing", "transposition", "missing_letter", "extra_letter",
      "ei/ie_confusion", "other">>

\* "ei" or "ie" occurs in s as s is written
HasDigraphAsWritten(s) == Contains(s, <<"e", "i">>) \/ Contains(s, <<"i", "e">>)

\* some two neighbouring letters of wrong are the letters of correct at the
\* same two places, swapped
SwappedAt(correct, wrong) ==
    \E i \in 1..(Len(correct) - 1) :
        /\ i + 1 <= Len(wrong)
        /\ wrong[i] = correct[i + 1]
        /\ wrong[i + 1] = correct[i]

\* rule k of the classifier matches (correct, wrong); digraphs tells whether
\* both words hold a digraph
RuleMatches(k, correct, wrong, digraphs) ==
    CASE k = 1 -> correct = <<>> \/ wrong = <<>>
      [] k = 2 -> str_remove_spaces(str_lower(correct)) = str_remove_spaces(str_lower(wrong))
      [] k = 3 -> SwappedAt(correct, wrong)
      [] k = 4 -> Len(wrong) < Len(correct)
      [] k = 5 -> Len(wrong) > Len(correct)
      [] k = 6 -> digraphs
      [] k = 7 -> TRUE

\* the first rule that matches
FirstRule(correct, wrong, digraphs) ==
    CHOOSE k \in 1..7 :
        /\ RuleMatches(k, correct, wrong, digraphs)
        /\ \A j \in 1..(k - 1) : ~RuleMatches(j, correct, wrong, digraphs)

ClassifierDone == call.op = "done" /\ call.f = "simple_mistake_type"

\* C21 as stated: the classifier returns the label of the first rule that
\* matches, in the order empty input, equality ignoring case and spaces,
\* neighbouring letters swapped, wrong shorter, wrong longer, both words
\* containing ei or ie as they are written, else other.
C21_FirstRuleAsWritten ==
    ClassifierDone =>
        call.ret = RuleLabels[FirstRule(call.correct, call.wrong,
                                        HasDigraphAsWritten(call.correct)
                                           /\ HasDigraphAsWritten(call.wrong))]

\* C21 amended: the classifier returns exactly one of the six labels, the
\* label of the first rule that matches in the stated order, where the sixth
\* rule looks for ei or ie in the lowercased words; a later rule's label is
\* never returned when an earlier rule matches.
C21_FirstRuleWins ==
    ClassifierDone =>
        /\ call.ret \in {RuleLabels[k] : k \in 1..7}
        /\ call.ret = RuleLabels[FirstRule(call.correct, call.wrong,
                                           HasDigraph(call.correct) /\ HasDigraph(call.wrong))]

\* a pair with a swap whose wrong word is also shorter has been classified
\* transposition
C21_Witness ==
    /\ ClassifierDone
    /\ FirstRule(call.correct, call.wrong, FALSE) = 3
    /\ RuleMatches(4, call.correct, call.wrong, FALSE)
    /\ call.ret = "transposition"

\* the number of attempts marked correct
Score(attempts) ==
    Cardinality({i \in 1..Len(attempts) : attempts[i].chosenWasCorrect = PyBool(TRUE)})

\* C14: the risk band is low exactly when score/total as a percentage is
\* above 80, monitor exactly when it is above 60 and at most 80, high
\* otherwise; exactly 80 gives monitor, exactly 60 gives high, and an empty
\* attempts list gives accuracy 0 and high, with no division error.
C14_RiskBands ==
    (call.op = "done" /\ call.f = "analyze_results") =>
        LET n == Len(call.attempts)
            k == Score(call.attempts)
            risk == call.ret.risk
        IN  /\ risk \in {"low", "monitor", "high"}
            /\ risk = "low" <=> (n > 0 /\ 100 * k > 80 * n)
            /\ risk = "monitor" <=> (n > 0 /\ 100 * k > 60 * n /\ 100 * k <= 80 * n)
            /\ (n > 0 /\ 100 * k = 80 * n) => risk = "monitor"
            /\ (n > 0 /\ 100 * k = 60 * n) => risk = "high"
            /\ n = 0 => (call.ret.status = 200 /\ call.ret.accuracy = 0 /\ risk = "high")

\* four right answers out of five: accuracy exactly 80, band monitor
C14_Witness ==
    /\ call.op = "done"
    /\ call.f = "analyze_results"
    /\ Len(call.attempts) = 5
    /\ Score(call.attempts) = 4
    /\ call.ret.accuracy = 8000
    /\ call.ret.risk = "monitor"

\* the elements of the provider's parsed answer that have both keys, in
\* order; the empty sequence when the call raised, the text did not parse
\* or the parsed value is no list of containers
ElementsWithBothKeys(outcome) ==
    IF outcome = Raises THEN <<>>
    ELSE LET parsed == json_loads(StripFences(outcome.text)) IN
         IF parsed.ok /\ parsed.val.t = "arr"
               /\ \A i \in 1..Len(parsed.val.a) : IsContainer(parsed.val.a[i])
         THEN SelectSeq(parsed.val.a, HasBothWords)
         ELSE <<>>

\* C15: /generate never answers with an error status and returns 1 to 6
\* word pairs: the fixed 6-pair fallback list when the provider call
\* raises, its text does not parse or no parsed element has both keys, and
\* otherwise the first at most 6 elements that have both keys.
C15_OneToSixPairs ==
    (call.op = "done" /\ call.f = "generate_words") =>
        LET both == ElementsWithBothKeys(call.outcome)
            n == Len(call.ret.wordPairs)
        IN  /\ call.ret.status = 200
            /\ 1 <= n /\ n <= 6
            /\ both = <<>> => call.ret.wordPairs = FALLBACK_WORD_PAIRS
            /\ both # <<>> =>
                  /\ n = (IF Len(both) < 6 THEN Len(both) ELSE 6)
                  /\ \A i \in 1..n :
                        /\ call.ret.wordPairs[i].correct = DictGet(both[i], "correct")
                        /\ call.ret.wordPairs[i].wrong = DictGet(both[i], "wrong")

\* C16: every WordPair /generate returns has a non-empty string as its
\* correct and as its wrong, whatever the provider returned.
C16_PairsNonEmpty ==
    (call.op = "done" /\ call.f = "generate_words" /\ call.ret.status = 200) =>
        \A i \in 1..Len(call.ret.wordPairs) :
            /\ call.ret.wordPairs[i].correct.t = "str"
            /\ call.ret.wordPairs[i].wrong.t = "str"
            /\ Len(call.ret.wordPairs[i].correct.s) > 0
            /\ Len(call.ret.wordPairs[i].wrong.s) > 0

\* the round is flagged as machine-generated
FlaggedAiGenerated(r) ==
    r.t = "obj" /\ PyIn("aiGenerated", r) /\ DictGet(r, "aiGenerated") = PyBool(TRUE)

\* C17: every round of a response with source "ai" and every cached round
\* has the machine-generated flag set, and no round of a response with
\* source "fallback" is flagged as machine-generated.
C17_FlagTellsOrigin ==
    /\ \A s \in DOMAIN rounds_cache :
          \A i \in 1..Len(rounds_cache[s].a) : FlaggedAiGenerated(rounds_cache[s].a[i])
    /\ (resp.op = "generate-rounds" /\ resp.status = 200) =>
          \A i \in 1..Len(resp.payload.a) :
              /\ resp.source = "ai" => FlaggedAiGenerated(resp.payload.a[i])
              /\ resp.source = "fallback" => ~FlaggedAiGenerated(resp.payload.a[i])

---------------------------------------------------------------------------
(* parse_json_response taken alone: the start state holds a text, the      *)
(* first action extracts its payload, the second serialises the payload    *)
(* and extracts again.                                                     *)

MaxTokens == 4

ExtractorTokens ==
    {LBrace, RBrace, LBracket, RBracket, Prose, Key("a"), Lit(PyNum(5)), Lit(PyNone)}

\* texts nested deeper than the decoder recurses: brackets only, and an
\* object inside prose whose member is such a run of brackets
DeepTexts ==
    {[i \in 1..(MaxDepth + 1) |-> LBracket],
     <<Prose, LBrace, Key("a")>> \o [i \in 1..MaxDepth |-> LBracket] \o <<RBrace>>}

\* every text of up to MaxTokens tokens, the provider's texts, the deep
\* texts and an object that repeats a key
ExtractorTexts ==
    UNION {[1..n -> ExtractorTokens] : n \in 0..MaxTokens}
    \cup Texts
    \cup DeepTexts
    \cup {<<LBrace, Key("a"), Lit(PyNum(1)), Key("b"), Lit(PyNum(2)), Key("a"),
            Lit(PyNum(3)), RBrace>>}

ExtractorArgs ==
    {[op |-> "args", f |-> "parse_json_response", text |-> t] : t \in ExtractorTexts}

InitExtractor ==
    /\ GEMINI_API_KEY = PyNone
    /\ InitServer
    /\ call \in ExtractorArgs

\* parse_json_response(text)
ParseJsonResponse ==
    /\ call.op = "args"
    /\ call.f = "parse_json_response"
    /\ call' = [op |-> "done", f |-> call.f, text |-> call.text,
                ret |-> parse_json_response(call.text)]
    /\ UNCHANGED <<reqs, GEMINI_API_KEY, rounds_cache, served, resp, gw, dbVars>>

\* parse_json_response(json.dumps(payload)) on the payload just recovered
ParseAgain ==
    /\ call.op = "done"
    /\ call.f = "parse_json_response"
    /\ call.ret.t \notin {"none", "raise"}
    /\ call' = [op |-> "again", f |-> call.f, text |-> call.text, ret |-> call.ret,
                again |-> parse_json_response(json_dumps(call.ret))]
    /\ UNCHANGED <<reqs, GEMINI_API_KEY, rounds_cache, served, resp, gw, dbVars>>

NextExtractor == ParseJsonResponse \/ ParseAgain

SpecExtractor == InitExtractor /\ [][NextExtractor]_vars

BraceSpan(text) ==
    IF \E i, j \in 1..Len(text) : i < j /\ text[i] = LBrace /\ text[j] = RBrace
    THEN SubSeq(text,
                CHOOSE i \in 1..Len(text) :
                    text[i] = LBrace /\ \A k \in 1..(i - 1) : text[k] # LBrace,
                CHOOSE j \in 1..Len(text) :
                    text[j] = RBrace /\ \A k \in (j + 1)..Len(text) : text[k] # RBrace)
    ELSE <<>>

\* C19: the extractor never raises; it returns the parse of the whole text
\* when that parses, otherwise the parse of the span from the first opening
\* brace to the last closing brace when there is one and it parses,
\* otherwise None; from prose, one object, prose it returns the object.
C19_ExtractorContract ==
    (call.op = "done" /\ call.f = "parse_json_response") =>
        LET whole == json_loads(call.text)
            span == json_loads(BraceSpan(call.text))
        IN  /\ call.ret.t # "raise"
            /\ call.ret = (IF whole.ok THEN whole.val
                            ELSE IF span.ok THEN span.val
                            ELSE PyNone)
            /\ \A v \in WrappedPayloads :
                  (v.t = "obj" /\ call.text = <<Prose>> \o json_dumps(v) \o <<Prose>>) =>
                      call.ret = v

---------------------------------------------------------------------------
(* Concurrent generate-rounds requests on the event loop.  A coroutine     *)
(* keeps the loop from one await to the next; the others wait.             *)

MaxConcurrent == 2

\* a generate_rounds whose gateway call is awaited
AwaitsWithAsyncGateway(step) == step \in {"accept", "provider", "return"}

\* the points of a request at which its coroutine awaits and the loop may
\* run another one: before the handler is entered and after it returned.
\* generate_rounds has no await, and call_gemini_with_retry is a plain
\* function that blocks in the provider call and in time.sleep
Awaits(step) == step \in {"accept", "return"}

\* the task that holds the loop after task i took this step
Holder(i, step) == IF Awaits(step) THEN 0 ELSE i

\* task i is run next after its step `after` when the loop is where that
\* step left it: free after an await, still held by i otherwise
Resumes(i, after) == reqs.running = Holder(i, after)

\* a request accepted by the server; concurrent tells that another request
\* was unanswered at that time
NewTask(sessionId, concurrent) ==
    [sessionId |-> sessionId, pc |-> "handler", concurrent |-> concurrent,
     status |-> 0, source |-> "none", payload |-> PyNone, calls |-> 0]

\* task i after its handler returned r
Answered(t, r) ==
    [t EXCEPT !.pc = "done", !.status = r.status, !.source = r.source,
              !.payload = r.payload, !.calls = Count(r.trace, "call")]

\* the server accepts a generate-rounds request and its coroutine waits
\* to be run
Accept ==
    /\ reqs.running = 0
    /\ Len(reqs.task) < MaxConcurrent
    /\ \E sessionId \in AppSessionIds :
          reqs' = [running |-> Holder(Len(reqs.task) + 1, "accept"),
                   task |-> Append(reqs.task,
                                   NewTask(sessionId,
                                           \E j \in 1..Len(reqs.task) :
                                               reqs.task[j].pc # "done"))]
    /\ UNCHANGED <<call, GEMINI_API_KEY, rounds_cache, served, resp, gw, dbVars>>

\* generate_rounds of task i up to its cache check: a hit returns the
\* cached rounds, a miss goes on to the gateway
CheckCache(i) ==
    /\ Resumes(i, "accept")
    /\ reqs.task[i].pc = "handler"
    /\ LET sessionId == reqs.task[i].sessionId IN
       IF Truthy(sessionId) /\ sessionId \in DOMAIN rounds_cache
       THEN LET r == Result(200, "ai", rounds_cache[sessionId], rounds_cache, <<>>) IN
            /\ reqs' = [running |-> Holder(i, "return"),
                        task |-> [reqs.task EXCEPT ![i] = Answered(@, r)]]
            /\ resp' = Response("generate-rounds", sessionId, r)
       ELSE /\ reqs' = [running |-> Holder(i, "check"),
                        task |-> [reqs.task EXCEPT ![i].pc = "provider"]]
            /\ resp' = resp
    /\ UNCHANGED <<call, GEMINI_API_KEY, rounds_cache, served, gw, dbVars>>

\* generate_rounds of task i from the gateway call to the cache write
CallProvider(i) ==
    /\ Resumes(i, "check")
    /\ reqs.task[i].pc = "provider"
    /\ \E outcomes \in AppOutcomes :
          LET g == call_gemini_with_retry(GEMINI_API_KEY, max_retries_default, outcomes) IN
          reqs' = [running |-> Holder(i, "provider"),
                   task |-> [reqs.task EXCEPT ![i].pc = "validate",
                                              ![i].payload = g.ret,
                                              ![i].calls = Count(g.trace, "call")]]
    /\ UNCHANGED <<call, GEMINI_API_KEY, rounds_cache, served, resp, gw, dbVars>>

\* generate_rounds of task i from the gateway's return to its own return:
\* parsing, validation, the cache write
ValidateAndStore(i) ==
    /\ Resumes(i, "provider")
    /\ reqs.task[i].pc = "validate"
    /\ LET sessionId == reqs.task[i].sessionId
           t == reqs.task[i]
           r == GenerateFromProvider(sessionId, rounds_cache,
                                     [ret |-> t.payload,
                                      trace |-> [k \in 1..t.calls |-> "call"]])
       IN  /\ rounds_cache' = r.cache
           /\ served' = Remember(sessionId, r)
           /\ resp' = Response("generate-rounds", sessionId, r)
           /\ reqs' = [running |-> Holder(i, "return"),
                       task |-> [reqs.task EXCEPT ![i] = Answered(t, r)]]
    /\ UNCHANGED <<call, GEMINI_API_KEY, gw, dbVars>>

NextConcurrent ==
    \/ Accept
    \/ \E i \in 1..Len(reqs.task) : CheckCache(i)
    \/ \E i \in 1..Len(reqs.task) : CallProvider(i)
    \/ \E i \in 1..Len(reqs.task) : ValidateAndStore(i)

SpecConcurrent == Init /\ [][NextConcurrent]_vars

\* task i is between its cache check and its cache write
Inside(i) == reqs.task[i].pc \in {"provider", "validate"}

\* C20 as stated: two concurrent first requests for one new session are
\* not serialized, both can miss the cache: while one of them has called
\* the provider and not yet written the cache, the other can run its cache
\* check.
C20_NotSerialized ==
    \A i, j \in 1..Len(reqs.task) :
        (/\ i # j
         /\ reqs.task[i].sessionId = reqs.task[j].sessionId
         /\ Truthy(reqs.task[i].sessionId)
         /\ reqs.task[i].pc = "validate"
         /\ reqs.task[j].pc = "handler") => ENABLED CheckCache(j)

\* C20 amended: concurrent generate-rounds requests are serialized by the
\* event loop: at most one request is between its cache check and its
\* cache write, and of two requests for one session that got provider
\* rounds both return the same batch and only one called the provider.
C20_Serialized ==
    /\ Cardinality({i \in 1..Len(reqs.task) : Inside(i)}) <= 1
    /\ \A i, j \in 1..Len(reqs.task) :
          (/\ i # j
           /\ reqs.task[i].sessionId = reqs.task[j].sessionId
           /\ Truthy(reqs.task[i].sessionId)
           /\ reqs.task[i].pc = "done" /\ reqs.task[i].source = "ai"
           /\ reqs.task[j].pc = "done" /\ reqs.task[j].source = "ai") =>
              /\ reqs.task[i].payload = reqs.task[j].payload
              /\ reqs.task[i].payload = rounds_cache[reqs.task[i].sessionId]
              /\ reqs.task[i].calls = 0 \/ reqs.task[j].calls = 0

\* two requests for one new session, the second accepted before the first
\* was answered: the second returned the first one's batch from the cache
C20_Witness ==
    /\ Len(reqs.task) >= 2
    /\ reqs.task[2].concurrent
    /\ reqs.task[1].sessionId = reqs.task[2].sessionId
    /\ reqs.task[1].pc = "done" /\ reqs.task[1].source = "ai" /\ reqs.task[1].calls = 1
    /\ reqs.task[2].pc = "done" /\ reqs.task[2].source = "ai" /\ reqs.task[2].calls = 0
    /\ reqs.task[2].payload = reqs.task[1].payload

---------------------------------------------------------------------------
(* app/auth, app/students and app/tests/routes.py: registration, the       *)
(* session cookie, a parent's students and the stored tests.               *)

\* the most parents one run registers, the two at start included
MaxParents == 3

\* the most test submissions one run handles
MaxTests == 1

\* the storybook side of the server, which these routes leave alone
serverVars == <<reqs, GEMINI_API_KEY, rounds_cache, served, gw,
                test_ai_rounds_col, test_ai_analysis_col>>

\* the cookies a request may carry: none, or a JWT with its subject that
\* decode_token rejects (signature, expiry) or accepts; the accepted ones
\* are those create_access_token has signed for the registered parents
SessionTokens(parents) ==
    {PyNone, [sub |-> "p1", valid |-> FALSE]}
    \cup {[sub |-> q._id, valid |-> TRUE] : q \in parents}

\* auth.dependencies.get_current_parent: the parent's id, or the
\* HTTPException it raises
get_current_parent(session_token, parents) ==
    IF session_token = PyNone
    THEN [status |-> 401, detail |-> "Not authenticated"]
    ELSE IF ~session_token.valid
    THEN [status |-> 401, detail |-> "Invalid or expired token"]
    ELSE IF ~\E q \in parents : q._id = session_token.sub
    THEN [status |-> 401, detail |-> "Invalid or expired token"]
    ELSE [status |-> 200, parent_id |-> session_token.sub]

\* the response to a request whose dependency raised HTTPException
Unauthorized(op, auth) ==
    [NoResponse EXCEPT !.op = op, !.status = auth.status, !.source = auth.detail]

\* auth.routes.validate_password: the requirements the password misses
validate_password(password) ==
    LET digits == {"0", "1", "2", "3", "4", "5", "6", "7", "8", "9"}
        special_characters ==
            {"!", "@", "#", "$", "%", "^", "&", "*", "(", ")", "-", "_", "=", "+", "[",
             "]", "{", "}", ";", ":", ",", ".", "<", ">", "/", "?", "\\", "|"}
    IN
    (IF Len(password) < 8 THEN <<"minimum length is 8">> ELSE <<>>)
    \o (IF ~\E i \in 1..Len(password), j \in 1..Len(ascii_uppercase) :
               password[i] = ascii_uppercase[j]
        THEN <<"must contain an uppercase letter">> ELSE <<>>)
    \o (IF ~\E i \in 1..Len(password) : password[i] \in digits
        THEN <<"must contain a number">> ELSE <<>>)
    \o (IF ~\E i \in 1..Len(password) : password[i] \in special_characters
        THEN <<"must contain a special character">> ELSE <<>>)

\* POST /auth/register: a parent and its first student.  The request sends
\* an address and no password, a weak one or a strong one; for a request
\* without password the handler draws 12 characters of letters, digits and
\* !@#$%^&*()
Register ==
    /\ Cardinality(parents_col) < MaxParents
    /\ student_ids < MaxStudents
    /\ \E email \in {<<ascii_lowercase[i]>> : i \in 1..MaxParents} \cup {<<"A">>},
          sent \in {<<>>, <<"p", "a", "s", "s">>,
                    <<"S", "t", "r", "0", "n", "g", "!", "1">>},
          generated \in {<<"a", "B", "3", "!", "a", "B", "3", "!", "a", "B", "3", "!">>,
                         <<"a", "b", "c", "d", "e", "f", "g", "h", "i", "j", "k", "l">>} :
        LET password == IF Len(sent) = 0 THEN generated ELSE sent
            parent_id == oid("p", Cardinality(parents_col) + 1)
            student_id == oid("st", student_ids + 1)
        IN
        /\ call' = [op |-> "done", f |-> "register"]
        /\ IF Len(validate_password(password)) > 0
           THEN /\ resp' = [NoResponse EXCEPT !.op = "register", !.status = 400,
                                              !.source = "PASSWORD_INVALID"]
                /\ UNCHANGED <<parents_col, students_col, student_ids>>
           ELSE IF \E q \in parents_col : q.email = str_lower(email)
           THEN /\ resp' = [NoResponse EXCEPT !.op = "register", !.status = 409,
                                              !.source = "EMAIL_EXISTS"]
                /\ UNCHANGED <<parents_col, students_col, student_ids>>
           ELSE /\ parents_col' =
                      parents_col \cup {[_id |-> parent_id, email |-> str_lower(email)]}
                /\ students_col' =
                      students_col \cup {[_id |-> student_id, parentId |-> parent_id]}
                /\ student_ids' = student_ids + 1
                /\ resp' = [NoResponse EXCEPT
                               !.op = "register", !.status = 201,
                               !.payload = [parentId |-> parent_id, studentId |-> student_id,
                                            cookie |-> [sub |-> parent_id, valid |-> TRUE]]]
        /\ UNCHANGED <<serverVars, printed, tests_col, clock>>

\* POST /students/: a further student of the authenticated parent
CreateStudent ==
    /\ student_ids < MaxStudents
    /\ \E session_token \in SessionTokens(parents_col) :
        LET auth == get_current_parent(session_token, parents_col)
            student_id == oid("st", student_ids + 1)
        IN
        /\ call' = [op |-> "done", f |-> "create_student", session_token |-> session_token]
        /\ IF auth.status # 200
           THEN /\ resp' = Unauthorized("create_student", auth)
                /\ UNCHANGED <<students_col, student_ids>>
           ELSE /\ students_col' =
                      students_col \cup {[_id |-> student_id, parentId |-> auth.parent_id]}
                /\ student_ids' = student_ids + 1
                /\ resp' = [NoResponse EXCEPT !.op = "create_student", !.status = 201,
                                              !.payload = [studentId |-> student_id]]
        /\ UNCHANGED <<serverVars, printed, parents_col, tests_col, clock>>

\* DELETE /students/{student_id}; ObjectId raises InvalidId on a malformed
\* id and nothing catches it
DeleteStudent ==
    \E session_token \in SessionTokens(parents_col), student_id \in ObjectIdStrings \cup {"not-an-id"} :
        LET auth == get_current_parent(session_token, parents_col)
            hits == {d \in students_col : d._id = student_id /\ d.parentId = auth.parent_id}
        IN
        /\ call' = [op |-> "done", f |-> "delete_student", session_token |-> session_token,
                    student_id |-> student_id]
        /\ IF auth.status # 200
           THEN /\ resp' = Unauthorized("delete_student", auth)
                /\ students_col' = students_col
           ELSE IF student_id \notin ObjectIdStrings
           THEN /\ resp' = [NoResponse EXCEPT !.op = "delete_student", !.status = 500]
                /\ students_col' = students_col
           ELSE IF hits = {}
           THEN /\ resp' = [NoResponse EXCEPT !.op = "delete_student", !.status = 404,
                                              !.source = "STUDENT_NOT_FOUND"]
                /\ students_col' = students_col
           ELSE /\ resp' = [NoResponse EXCEPT !.op = "delete_student", !.status = 200]
                /\ students_col' = students_col \ hits
        /\ UNCHANGED <<serverVars, printed, parents_col, student_ids, tests_col, clock>>

\* POST /tests/submit with a session cookie, for a test that carries no
\* analysis of its own
SubmitTestWithCookie ==
    /\ clock < MaxTests
    /\ \E session_token \in SessionTokens(parents_col), studentId \in ObjectIdStrings \cup {"not-an-id"} :
        LET auth == get_current_parent(session_token, parents_col) IN
        /\ call' = [op |-> "done", f |-> "submit_test", session_token |-> session_token,
                    studentId |-> studentId]
        /\ IF auth.status # 200
           THEN /\ resp' = Unauthorized("submit", auth)
                /\ UNCHANGED <<tests_col, clock, printed>>
           ELSE submit_test(auth.parent_id, studentId,
                            [sessionId |-> PyNone, aiAnalysis |-> PyNone], clock + 1)
        /\ UNCHANGED <<serverVars, students_col, parents_col, student_ids>>

\* a stored test as the read routes return it: _id replaced by id
Returned(tests, i) ==
    [id |-> oid("t", i), studentId |-> tests[i].studentId,
     testType |-> tests[i].testType, results |-> tests[i].results,
     createdAt |-> tests[i].createdAt, aiAnalysis |-> tests[i].aiAnalysis]

\* the positions hits of tests, newest first: sort("createdAt", -1)
NewestFirst(tests, hits) ==
    CHOOSE order \in [1..Cardinality(hits) -> hits] :
        /\ \A i, j \in 1..Cardinality(hits) : i # j => order[i] # order[j]
        /\ \A i, j \in 1..Cardinality(hits) :
              i < j => tests[order[i]].createdAt >= tests[order[j]].createdAt

\* tests.routes.get_history for the authenticated parent
get_history(parent_id, testType, limit, offset, tests, students) ==
    LET owned == {d._id : d \in {x \in students : x.parentId = parent_id}}
        hits == {i \in 1..Len(tests) :
                    /\ tests[i].studentId \in owned
                    /\ Truthy(testType) => testType = PyStr(<<tests[i].testType>>)}
        order == NewestFirst(tests, hits)
        page == SubSeq(order, offset + 1,
                       IF offset + limit < Len(order) THEN offset + limit ELSE Len(order))
    IN  [NoResponse EXCEPT
           !.op = "history", !.status = 200,
           !.payload = [total |-> Cardinality(hits),
                        tests |-> [k \in 1..Len(page) |-> Returned(tests, page[k])]]]

\* GET /tests/history
GetHistory ==
    \E session_token \in SessionTokens(parents_col), testType \in {PyNone, PyStr(<<"storybook">>), PyStr(<<"letterMatch">>)},
       limit \in {1, 20}, offset \in {0, 1} :
        LET auth == get_current_parent(session_token, parents_col) IN
        /\ call' = [op |-> "done", f |-> "get_history", session_token |-> session_token]
        /\ resp' = IF auth.status # 200 THEN Unauthorized("history", auth)
                   ELSE get_history(auth.parent_id, testType, limit, offset,
                                    tests_col, students_col)
        /\ UNCHANGED <<serverVars, printed, students_col, parents_col, student_ids,
                       tests_col, clock>>

\* a get_test_detail without the ownership check
get_test_detail_any_parent(test_id, parent_id, tests, students) ==
    IF test_id = "not-an-id"
    THEN [NoResponse EXCEPT !.op = "detail", !.status = 500]
    ELSE IF ~\E i \in 1..Len(tests) : oid("t", i) = test_id
    THEN [NoResponse EXCEPT !.op = "detail", !.status = 404, !.source = "TEST_NOT_FOUND"]
    ELSE LET i == CHOOSE i \in 1..Len(tests) : oid("t", i) = test_id IN
         [NoResponse EXCEPT !.op = "detail", !.status = 200,
                            !.payload = Returned(tests, i)]

\* tests.routes.get_test_detail for the authenticated parent; ObjectId
\* raises InvalidId on a malformed id and nothing catches it
get_test_detail(test_id, parent_id, tests, students) ==
    IF test_id = "not-an-id"
    THEN [NoResponse EXCEPT !.op = "detail", !.status = 500]
    ELSE IF ~\E i \in 1..Len(tests) : oid("t", i) = test_id
    THEN [NoResponse EXCEPT !.op = "detail", !.status = 404, !.source = "TEST_NOT_FOUND"]
    ELSE LET i == CHOOSE i \in 1..Len(tests) : oid("t", i) = test_id IN
         IF ~\E d \in students : d._id = tests[i].studentId /\ d.parentId = parent_id
         THEN [NoResponse EXCEPT !.op = "detail", !.status = 403,
                                 !.source = "NOT_AUTHORIZED"]
         ELSE [NoResponse EXCEPT !.op = "detail", !.status = 200,
                                 !.payload = Returned(tests, i)]

\* GET /tests/{test_id}, for the ids test inserts can be given, an id no
\* document has, and a malformed one
GetTestDetail ==
    \E session_token \in SessionTokens(parents_col),
       test_id \in {oid("t", i) : i \in 1..MaxTests} \cup {"t9", "not-an-id"} :
        LET auth == get_current_parent(session_token, parents_col) IN
        /\ call' = [op |-> "done", f |-> "get_test_detail", session_token |-> session_token,
                    test_id |-> test_id]
        /\ resp' = IF auth.status # 200 THEN Unauthorized("detail", auth)
                   ELSE get_test_detail(test_id, auth.parent_id, tests_col, students_col)
        /\ UNCHANGED <<serverVars, printed, students_col, parents_col, student_ids,
                       tests_col, clock>>

NextTests ==
    \/ Register
    \/ CreateStudent
    \/ DeleteStudent
    \/ SubmitTestWithCookie
    \/ GetHistory
    \/ GetTestDetail

\* the server after start-up with the two registered parents; the
\* credential of the storybook routes plays no part here
InitTests ==
    /\ GEMINI_API_KEY = PyNone
    /\ InitServer
    /\ call = NoCall

SpecTests == InitTests /\ [][NextTests]_vars

\* parent_id has a student with this id
Owns(parent_id, studentId) ==
    \E d \in students_col : d._id = studentId /\ d.parentId = parent_id

\* the parent the cookie of the request authenticates, when it does
Authenticated(request) ==
    /\ request.session_token # PyNone
    /\ request.session_token.valid
    /\ \E q \in parents_col : q._id = request.session_token.sub

\* C23: the tests collection changes only by a submit_test whose studentId
\* names a student of the authenticated parent, which appends one document
\* for that student; a submit_test with an unknown, malformed or foreign
\* studentId is answered 404 STUDENT_NOT_FOUND and leaves the collection
\* as it was.
C23_SubmitOnlyForOwnStudent ==
    [][/\ tests_col' # tests_col
           => /\ call'.f = "submit_test"
              /\ Authenticated(call')
              /\ Owns(call'.session_token.sub, call'.studentId)
              /\ resp'.status = 201
              /\ Len(tests_col') = Len(tests_col) + 1
              /\ SubSeq(tests_col', 1, Len(tests_col)) = tests_col
              /\ tests_col'[Len(tests_col')].studentId = call'.studentId
       /\ (clock' # clock /\ call'.f = "submit_test" /\ Authenticated(call')
             /\ ~Owns(call'.session_token.sub, call'.studentId))
           => /\ resp'.status = 404
              /\ resp'.source = "STUDENT_NOT_FOUND"
              /\ tests_col' = tests_col]_vars

\* a parent has submitted a test for another parent's student and was
\* answered 404 with nothing stored
C23_Witness ==
    /\ call.op = "done" /\ call.f = "submit_test"
    /\ Authenticated(call)
    /\ \E d \in students_col :
          d._id = call.studentId /\ d.parentId # call.session_token.sub
    /\ resp.op = "submit" /\ resp.status = 404 /\ resp.source = "STUDENT_NOT_FOUND"
    /\ tests_col = <<>>

\* the student of studentId is registered to a parent other than parent_id
ForeignStudent(parent_id, studentId) ==
    \E d \in students_col : d._id = studentId /\ d.parentId # parent_id

\* C24: whatever registrations, student creations, deletions and test
\* submissions came before, every test document a 200 response of
\* get_history or get_test_detail carries is of a student of the parent the
\* cookie authenticates, never of another parent's student; and
\* get_test_detail for a stored test of another parent's student is
\* answered 403 NOT_AUTHORIZED.
C24_NoForeignTestReturned ==
    /\ (resp.op = "history" /\ resp.status = 200)
          => /\ Authenticated(call)
             /\ \A k \in 1..Len(resp.payload.tests) :
                   /\ Owns(call.session_token.sub, resp.payload.tests[k].studentId)
                   /\ ~ForeignStudent(call.session_token.sub,
                                      resp.payload.tests[k].studentId)
    /\ (resp.op = "detail" /\ resp.status = 200)
          => /\ Authenticated(call)
             /\ Owns(call.session_token.sub, resp.payload.studentId)
             /\ ~ForeignStudent(call.session_token.sub, resp.payload.studentId)
    /\ (call.op = "done" /\ call.f = "get_test_detail" /\ Authenticated(call))
          => \A i \in 1..Len(tests_col) :
                (oid("t", i) = call.test_id
                 /\ ForeignStudent(call.session_token.sub, tests_col[i].studentId))
                   => resp.status = 403 /\ resp.source = "NOT_AUTHORIZED"

\* a parent has asked for the stored test of another parent's student and
\* was answered 403
C24_Witness ==
    /\ call.op = "done" /\ call.f = "get_test_detail"
    /\ Authenticated(call)
    /\ \E i \in 1..Len(tests_col) :
          /\ oid("t", i) = call.test_id
          /\ ForeignStudent(call.session_token.sub, tests_col[i].studentId)
    /\ resp.op = "detail" /\ resp.status = 403 /\ resp.source = "NOT_AUTHORIZED"

\* the wrapper submit_test puts around an analysis that came from the client
FrontendWrapper(analysis) ==
    PyDict(<< [key |-> "source",   val |-> PyStr(<<"frontend">>)],
              [key |-> "analysis", val |-> analysis] >>)

\* some analysis record the server has persisted carries this analysis
ServerPersisted(analysis) ==
    \E j \in 1..Len(test_ai_analysis_col) : test_ai_analysis_col[j].analysis = analysis

\* C25: the aiAnalysis of every stored test is absent, or the analysis of a
\* persisted analysis record, or the wrapper with source 'frontend' around
\* the aiAnalysis of the submitted results; the aiAnalysis the client sent is
\* never the stored top-level value itself.
C25_ClientAnalysisMarked ==
    \A i \in 1..Len(tests_col) :
        LET doc == tests_col[i] IN
        /\ \/ doc.aiAnalysis = Absent
           \/ ServerPersisted(doc.aiAnalysis)
           \/ /\ Truthy(doc.results.aiAnalysis)
              /\ doc.aiAnalysis = FrontendWrapper(doc.results.aiAnalysis)
        /\ Truthy(doc.results.aiAnalysis) =>
              \/ doc.aiAnalysis # doc.results.aiAnalysis
              \/ ServerPersisted(doc.aiAnalysis)

\* a test whose results carried an aiAnalysis of the client is stored with
\* the wrapper around it, while analysis records are persisted
C25_Witness ==
    /\ resp.op = "submit" /\ resp.status = 201
    /\ Len(test_ai_analysis_col) > 0
    /\ \E i \in 1..Len(tests_col) :
          /\ tests_col[i].results.aiAnalysis = ClientAnalysis
          /\ tests_col[i].aiAnalysis = FrontendWrapper(ClientAnalysis)

=============================================================================
